---- MODULE Spec2Model ----
(***************************************************************************)
(* One live session of the call-insights backend (websocket/               *)
(* connectionHandler.js with services/aiService.js, services/ragService.js,*)
(* services/transcriptionService.js and utils/index.js).                   *)
(*                                                                         *)
(* The session is a single chain of async functions on the node.js event   *)
(* loop.  A step of the model is the code that runs between two awaits of  *)
(* that chain.  inflight holds the frames of the processFinalTranscript     *)
(* calls that have started and not returned; a frame's stage names the     *)
(* await it is suspended at:                                               *)
(*   "summary" aiService.updateConversationSummary is pending              *)
(*   "eval"    aiService.evaluateForSuggestions is pending                 *)
(*   "rag"     ragService.getTopKRelevantChunks (embedder) is pending      *)
(*   "gen"     aiService.generateSuggestions is pending                    *)
(* The for-await loop of processTranscriptionStream awaits each handler,   *)
(* which is the guard LoopReady of the step that takes the next event.     *)
(* phase names the await initialize() is suspended at:                     *)
(*   "accepted"  the handler is constructed, initialize() has not run yet  *)
(*   "overview"  ragService.getOverviewChunks (embedder) is pending        *)
(*   "digest"    aiService.generateRAGSummary is pending                   *)
(*   "starting"  transcriptionService.startTranscription is pending        *)
(*   "streaming" the for-await loop of processTranscriptionStream runs     *)
(*   "returned"  initialize() has returned to handleNewConnection          *)
(* Texts are opaque tokens; a model reply is a sequence of tokens, so the  *)
(* brace scanning of utils/index.js is computed, not assumed.              *)
(***************************************************************************)
EXTENDS Integers, Sequences, FiniteSets, TLC

\* ---------------------------------------------------------------- bounds
\* raw recognizer events delivered in one run (an error thrown by the
\* stream takes the place of an event it could still deliver)
MaxEvents == 3
\* provider calls (summary, evaluation, embedding, generation) that fail in one run
MaxFailures == 1
\* audio frames the client sends in one run
MaxFrames == 1
\* audio frames the client sends in one run of a silent session
MaxBurst == 3
\* largest k getTopKRelevantChunks is called with on its own
MaxK == 5
\* recognizer events of each of two sessions running side by side
MaxPairEvents == 3
\* largest similarity score of a corpus entry
MaxScore == 2
\* cosineSimilarity is called on vectors of Dim coordinates in -MaxCoord..MaxCoord
Dim == 2
MaxCoord == 1

\* ------------------------------------------------------- program constants
INITIAL_SUMMARY == "The conversation has just started."
MAX_HISTORY_ITEMS == 6
RAG_CHUNKS_COUNT == 3

\* JavaScript null
NULL == "null"

\* ----------------------------------------------------------------- inputs
\* raw speaker tags of the recognizer (result.SpeakerLabel); the recognizer
\* numbers the speakers it tells apart in the order it first hears them
TagName(n) == <<"spk_0", "spk_1", "spk_2">>[n]
Tags == {TagName(n) : n \in 1..3}

\* text of the k-th raw recognizer event when it carries one
Utterance(k) == <<"u1", "u2", "u3", "u4", "u5", "u6">>[k]

\* reply of the summarizer to its n-th call
SummaryReply(n) == <<"summary 1", "summary 2", "summary 3", "summary 4", "summary 5", "summary 6", "summary 7", "summary 8">>[n]

\* raw events the recognizer may deliver as its k-th event when it has told
\* `heard` speakers apart so far: an event that is no TranscriptEvent, one
\* without results, a result without alternative, a tagged partial result
\* whose text is empty, or a partial/final result with text and no tag, a tag
\* already used, or the next new tag
RawEvents(k, heard) ==
  { [shape |-> "noTranscriptEvent", text |-> "", isPartial |-> FALSE, speaker |-> NULL],
    [shape |-> "noResults", text |-> "", isPartial |-> FALSE, speaker |-> NULL],
    [shape |-> "noAlternative", text |-> "", isPartial |-> FALSE, speaker |-> NULL],
    [shape |-> "result", text |-> "", isPartial |-> TRUE, speaker |-> TagName(1)] } \cup
  { [shape |-> "result", text |-> Utterance(k), isPartial |-> p, speaker |-> s] :
      p \in BOOLEAN,
      s \in {NULL} \cup {TagName(n) : n \in 1..(IF heard < 3 THEN heard + 1 ELSE 3)} }

\* the corpus of ragService: empty (vector file missing) or loaded
Corpus == <<"chunk 1", "chunk 2", "chunk 3", "chunk 4">>

\* JSON values: a string, an array of strings, or undefined (member absent)
JStr(x) == [type |-> "string", items |-> <<x>>]
JArr(xs) == [type |-> "array", items |-> xs]
JUndef == [type |-> "undefined", items |-> <<>>]

\* JavaScript truthiness of a JSON value: "" and undefined are falsy, every
\* array (the empty one too) is truthy
JTruthy(v) == (v.type = "string" /\ v.items # <<"">>) \/ v.type = "array"

\* tokens of a model reply: braces, prose, and "key": value members
Tok(k, v) == [k |-> k, v |-> v]
LB == Tok("{", JUndef)
RB == Tok("}", JUndef)
TXT == Tok("text", JUndef)

Last(s, n) == IF Len(s) <= n THEN s ELSE SubSeq(s, Len(s) - n + 1, Len(s))

RemoveAt(s, i) == SubSeq(s, 1, i - 1) \o SubSeq(s, i + 1, Len(s))

\* JavaScript truthiness of a string-or-null value
Truthy(v) == v # NULL /\ v # ""

\* ------------------------------------------------------------------ state
VARIABLES
  wsOpen,               \* ws.readyState === ws.OPEN
  isClosed,             \* ConnectionHandler.isClosed
  speakerMap,           \* raw tag -> "Speaker N" (NULL: not in the map)
  speakerCount,
  conversationHistory,  \* <<label, text>> stands for `${label}: ${text}`
  conversationSummary,
  lastFinalSpeaker,
  lastFinalTranscript,
  inquirerSpeaker,
  responderSpeaker,
  rag,                  \* ragService: [isInitialized, salesVectors]
  inflight,             \* frames of running processFinalTranscript calls
  sent,                 \* messages written to the socket, in order
  events,               \* history variable: normalized events handled so far
  calls,                \* history variable: provider calls made so far
  rawCount,             \* raw recognizer events delivered so far
  failures,             \* provider calls that failed so far
  phase,                \* the await initialize() is suspended at
  streamError,          \* the error the recognition request or stream threw
  ragSummary,           \* ConnectionHandler.ragSummary
  listeners,            \* listeners registered on the socket
  connections,          \* WebSocketManager.connections
  audioBuffer,          \* ConnectionHandler.audioBuffer
  framesSent,           \* audio frames the client has sent so far
  lastIndex,            \* lastIndex of the audio generator
  audioGen,             \* "idle" (not created), "running", "ended"
  yielded,              \* history variable: chunks the generator has yielded
  lastReply,            \* history variable: the provider answer (or recognizer
                        \* event) the latest step of the session's chain
                        \* resumed with
  probe,                \* a call of a service method made on its own: its
                        \* arguments, how far it has run, and its result
  current,              \* the handler whose fields the variables above hold
  other                 \* the fields of the second handler, when there is one

vars == <<wsOpen, isClosed, speakerMap, speakerCount, conversationHistory,
          conversationSummary, lastFinalSpeaker, lastFinalTranscript,
          inquirerSpeaker, responderSpeaker, rag, inflight, sent, events,
          calls, rawCount, failures, phase, streamError, ragSummary,
          listeners, connections, audioBuffer, framesSent, lastIndex,
          audioGen, yielded, lastReply, probe, current, other>>

registry == <<speakerMap, speakerCount>>
roles == <<inquirerSpeaker, responderSpeaker>>
lastFinal == <<lastFinalSpeaker, lastFinalTranscript>>
socket == <<wsOpen, isClosed>>
\* what no step of a session changes
fixed == <<rag, probe, current, other>>
lifecycle == <<phase, streamError, ragSummary, listeners, connections>>
audio == <<audioBuffer, framesSent, lastIndex, audioGen, yielded>>
\* the fields of one handler, with the history of its session
fields == <<socket, registry, conversationHistory, conversationSummary, lastFinal, roles,
            inflight, sent, events, calls, rawCount, failures, phase, streamError,
            ragSummary, listeners, audio, lastReply>>

\* ------------------------------------------------------- utils/index.js
\* nesting depth after token i, counted from token `from`
DepthFrom(s, from, i) ==
  Cardinality({j \in from..i : s[j].k = "{"}) - Cardinality({j \in from..i : s[j].k = "}"})

\* JSON.parse succeeds on s and yields an object: s is one brace-balanced
\* {...} with members (and nested objects) only, no prose
IsJsonObject(s) ==
  /\ Len(s) >= 2
  /\ s[1].k = "{"
  /\ s[Len(s)].k = "}"
  /\ \A i \in 1..(Len(s) - 1) : DepthFrom(s, 1, i) >= 1
  /\ DepthFrom(s, 1, Len(s)) = 0
  /\ \A i \in 1..Len(s) : s[i].k # "text"

\* obj[key] of the object JSON.parse(s) returns (the last top-level member wins)
JsonField(s, key) ==
  LET at == {i \in 1..Len(s) : s[i].k = key /\ DepthFrom(s, 1, i) = 1}
  IN  IF at = {} THEN JUndef
      ELSE s[CHOOSE i \in at : \A j \in at : j <= i].v

\* /\{[^{}]*}/.test(inputString)
hasCurlyBracesWithText(s) ==
  \E i \in 1..Len(s) : \E j \in (i + 1)..Len(s) :
    /\ s[i].k = "{"
    /\ s[j].k = "}"
    /\ \A m \in (i + 1)..(j - 1) : s[m].k \notin {"{", "}"}

\* the text from the first "{" to its matching "}"; <<>> stands for null
extractTextWithinCurlyBraces(s) ==
  LET opens == {i \in 1..Len(s) : s[i].k = "{"}
  IN  IF opens = {} THEN <<>>
      ELSE LET start == CHOOSE i \in opens : \A j \in opens : i <= j
               ends == {i \in start..Len(s) : s[i].k = "}" /\ DepthFrom(s, start, i) = 0}
           IN  IF ends = {} THEN <<>>
               ELSE SubSeq(s, start, CHOOSE i \in ends : \A j \in ends : i <= j)

\* JSON.parse or the fallback null; <<>> stands for null, <<s>> for the object
safeJsonParse(s) == IF IsJsonObject(s) THEN <<s>> ELSE <<>>

\* responseText.match(/\{[\s\S]*\}/): the greedy match runs from the first "{"
\* to the last "}" of the text; a JSON.parse error is caught and gives null
extractJsonFromResponse(s) ==
  LET opens == {i \in 1..Len(s) : s[i].k = "{"}
  IN  IF opens = {} THEN <<>>
      ELSE LET start == CHOOSE i \in opens : \A j \in opens : i <= j
               closes == {i \in (start + 1)..Len(s) : s[i].k = "}"}
           IN  IF closes = {} THEN <<>>
               ELSE LET match == SubSeq(s, start, CHOOSE i \in closes : \A j \in closes : j <= i)
                    IN  IF IsJsonObject(match) THEN <<match>> ELSE <<>>

\* sum of f over 1..n
RECURSIVE SumTo(_, _)
SumTo(f, n) == IF n = 0 THEN 0 ELSE f[n] + SumTo(f, n - 1)

\* a number num / sqrt(den2) with den2 > 0, or NaN
Quotient(num, den2) == [nan |-> FALSE, num |-> num, den2 |-> den2]
NaN == [nan |-> TRUE, num |-> 0, den2 |-> 0]

\* cosineSimilarity: dot / (Math.sqrt(normA) * Math.sqrt(normB)), summed
\* over the coordinates of a; with a zero norm the division is 0 / 0
cosineSimilarity(a, b) ==
  LET dot == SumTo([i \in 1..Len(a) |-> a[i] * b[i]], Len(a))
      normA == SumTo([i \in 1..Len(a) |-> a[i] * a[i]], Len(a))
      normB == SumTo([i \in 1..Len(a) |-> b[i] * b[i]], Len(a))
  IN  IF normA * normB = 0 THEN NaN ELSE Quotient(dot, normA * normB)

\* --------------------------------------------- services/ragService.js
\* replies of the embedding provider, as the similarity score each corpus
\* entry gets for the embedded query
ScoreVectors == { <<3, 2, 1, 0>>, <<1, 2, 2, 0>> }

\* scored.sort((a, b) => b.score - a.score).slice(0, k).map(s => s.chunk):
\* a stable sort by descending score
\* faulty variant: the sort puts the later of two equal scores first
RankOfTiesReversed(scores, i) ==
  1 + Cardinality({j \in 1..Len(scores) :
        scores[j] > scores[i] \/ (scores[j] = scores[i] /\ j > i)})

RankOf(scores, i) ==
  1 + Cardinality({j \in 1..Len(scores) :
        scores[j] > scores[i] \/ (scores[j] = scores[i] /\ j < i)})

SortedChunks(vectors, scores) ==
  [r \in 1..Len(vectors) |-> vectors[CHOOSE i \in 1..Len(vectors) : RankOf(scores, i) = r]]

\* Array.prototype.slice(0, k): a negative k counts from the end
Slice(s, k) ==
  LET end == IF k < 0 THEN (IF Len(s) + k < 0 THEN 0 ELSE Len(s) + k)
             ELSE IF k < Len(s) THEN k ELSE Len(s)
  IN  SubSeq(s, 1, end)

\* faulty variant: the scored chunks are not sorted
getTopKRelevantChunksUnsorted(vectors, reply, k) ==
  IF reply = <<>> THEN <<>> ELSE Slice(vectors, k)

\* getTopKRelevantChunks once the embedder has answered: reply <<>> stands
\* for a thrown error, which the method catches and turns into []
getTopKRelevantChunks(vectors, reply, k) ==
  IF reply = <<>> THEN <<>>
  ELSE Slice(SortedChunks(vectors, reply[1]), k)

\* ---------------------------------------------- services/aiService.js
\* faulty variant: a failed call loses the summary
updateConversationSummaryCleared(currentSummary, reply) ==
  IF reply = <<>> THEN INITIAL_SUMMARY ELSE reply[1]

\* reply <<>> stands for a provider call that threw, <<text>> for its text
updateConversationSummary(currentSummary, reply) ==
  IF reply = <<>> THEN currentSummary ELSE reply[1]

\* faulty variant: without the default object for a text that does not parse
evaluateForSuggestionsNoDefault(reply) ==
  LET evalJson == IF reply = <<>> THEN <<>> ELSE extractJsonFromResponse(reply[1])
  IN  IF reply = <<>>
      THEN [ready_for_suggestions |-> JStr("no"),
            is_rag_required |-> JStr("no"),
            user_context |-> JStr("LLM error")]
      ELSE IF evalJson = <<>>
      THEN [ready_for_suggestions |-> JUndef, is_rag_required |-> JUndef, user_context |-> JUndef]
      ELSE [ready_for_suggestions |-> JsonField(evalJson[1], "ready_for_suggestions"),
            is_rag_required |-> JsonField(evalJson[1], "is_rag_required"),
            user_context |-> JsonField(evalJson[1], "user_context")]

evaluateForSuggestions(reply) ==
  LET evalJson == IF reply = <<>> THEN <<>> ELSE extractJsonFromResponse(reply[1])
  IN  IF reply = <<>>
      THEN [ready_for_suggestions |-> JStr("no"),
            is_rag_required |-> JStr("no"),
            user_context |-> JStr("LLM error")]
      ELSE IF evalJson = <<>>
      THEN [ready_for_suggestions |-> JStr("no"),
            is_rag_required |-> JStr("no"),
            user_context |-> JStr("Could not parse LLM response.")]
      ELSE [ready_for_suggestions |-> JsonField(evalJson[1], "ready_for_suggestions"),
            is_rag_required |-> JsonField(evalJson[1], "is_rag_required"),
            user_context |-> JsonField(evalJson[1], "user_context")]

createFallbackSuggestion(trigger, reason) ==
  [trigger |-> JStr(trigger), title |-> JStr("Suggestion Card"), points |-> JArr(<<reason>>)]

\* faulty variant: the members of the parsed object are copied as they are
parseSuggestionResponseNoDefaults(suggestionText, fallbackTrigger) ==
  LET jsonString == extractTextWithinCurlyBraces(suggestionText)
      parsedJson == IF jsonString = <<>> THEN <<>> ELSE safeJsonParse(jsonString)
  IN  IF hasCurlyBracesWithText(suggestionText) /\ jsonString # <<>> /\ parsedJson # <<>>
      THEN [trigger |-> JsonField(parsedJson[1], "trigger"),
            title |-> JsonField(parsedJson[1], "title"),
            points |-> JsonField(parsedJson[1], "points")]
      ELSE createFallbackSuggestion(fallbackTrigger, "Could not parse LLM response")

parseSuggestionResponse(suggestionText, fallbackTrigger) ==
  LET jsonString == extractTextWithinCurlyBraces(suggestionText)
      parsedJson == IF jsonString = <<>> THEN <<>> ELSE safeJsonParse(jsonString)
  IN  IF hasCurlyBracesWithText(suggestionText) /\ jsonString # <<>> /\ parsedJson # <<>>
      THEN LET t == JsonField(parsedJson[1], "trigger")
               h == JsonField(parsedJson[1], "title")
               q == JsonField(parsedJson[1], "points")
           IN  [trigger |-> IF JTruthy(t) THEN t ELSE JStr(fallbackTrigger),
                title |-> IF JTruthy(h) THEN h ELSE JStr("Suggestion Card"),
                points |-> IF JTruthy(q) THEN q ELSE JArr(<<"No points available">>)]
      ELSE createFallbackSuggestion(fallbackTrigger, "Could not parse LLM response")

\* faulty variant: a provider error is not caught and reaches the caller
generateSuggestionsUncaught(reply, lastTranscript) ==
  IF reply = <<>> THEN <<>> ELSE <<parseSuggestionResponse(reply[1], lastTranscript)>>

\* <<card>>: the method returns a card in every case (it catches its errors)
generateSuggestions(reply, lastTranscript) ==
  IF reply = <<>>
  THEN <<createFallbackSuggestion(lastTranscript, "LLM error")>>
  ELSE <<parseSuggestionResponse(reply[1], lastTranscript)>>

\* faulty variant: a failed summarization leaves its error text as digest
generateRAGSummaryErrorText(reply) == IF reply = <<>> THEN "Error generating RAG summary" ELSE reply[1]

\* generateRAGSummary once the topChunks are not empty and the provider has
\* answered: the text, or "" when the call threw
generateRAGSummary(reply) == IF reply = <<>> THEN "" ELSE reply[1]

\* ------------------------------------- services/transcriptionService.js
\* error.code of the errors the recognition request or its result stream
\* may throw
StreamErrors == {"ERR_STREAM_PREMATURE_CLOSE", "ECONNRESET"}

PREMATURE_CLOSE == "ERR_STREAM_PREMATURE_CLOSE"

\* the error caught by startTranscription: its code, and whether the stream
\* had been established when it was thrown
StreamError(code, established) == [code |-> code, established |-> established]

NoStreamError == StreamError(NULL, FALSE)

\* faulty variant: every error of the stream is taken for an early close
handleTranscriptionErrorAsWarning(code) ==
  [type |-> "warning", message |-> "AWS Transcribe stream closed early (likely short audio window)."]

handleTranscriptionError(code) ==
  IF code = "ERR_STREAM_PREMATURE_CLOSE"
  THEN [type |-> "warning", message |-> "AWS Transcribe stream closed early (likely short audio window)."]
  ELSE [type |-> "error", message |-> code]

\* faulty variant: the text of the first alternative is not looked at
processTranscriptionEventUnchecked(raw) ==
  IF raw.shape \in {"noTranscriptEvent", "noResults"} THEN <<>>
  ELSE <<[transcript |-> raw.text, isFinal |-> ~raw.isPartial, awsSpeaker |-> raw.speaker]>>

\* <<>> stands for null; a result without first alternative has an undefined
\* text, which is falsy like the empty one
processTranscriptionEvent(raw) ==
  IF raw.shape = "noTranscriptEvent" THEN <<>>
  ELSE IF raw.shape = "noResults" THEN <<>>
  ELSE IF raw.shape = "noAlternative" \/ raw.text = "" THEN <<>>
  ELSE <<[transcript |-> raw.text, isFinal |-> ~raw.isPartial, awsSpeaker |-> raw.speaker]>>

\* ----------------------------------------- websocket/connectionHandler.js
SpeakerName(n) == <<"Speaker 1", "Speaker 2", "Speaker 3", "Speaker 4">>[n]

\* faulty variant: an untagged event uses up an ordinal
getSpeakerDisplayCountingUntagged(map, count, awsSpeaker) ==
  IF awsSpeaker = NULL THEN [label |-> NULL, map |-> map, count |-> count + 1]
  ELSE IF map[awsSpeaker] = NULL
  THEN [label |-> SpeakerName(count),
        map |-> [map EXCEPT ![awsSpeaker] = SpeakerName(count)],
        count |-> count + 1]
  ELSE [label |-> map[awsSpeaker], map |-> map, count |-> count]

getSpeakerDisplay(map, count, awsSpeaker) ==
  IF awsSpeaker = NULL THEN [label |-> NULL, map |-> map, count |-> count]
  ELSE IF map[awsSpeaker] = NULL
  THEN [label |-> SpeakerName(count),
        map |-> [map EXCEPT ![awsSpeaker] = SpeakerName(count)],
        count |-> count + 1]
  ELSE [label |-> map[awsSpeaker], map |-> map, count |-> count]

\* faulty variant: the responder is rebound to whoever is not the inquirer
identifySpeakerRolesRebinding(inquirer, responder, speakerDisplay) ==
  IF ~Truthy(inquirer)
  THEN [inquirer |-> speakerDisplay, responder |-> responder]
  ELSE IF speakerDisplay # inquirer
  THEN [inquirer |-> inquirer, responder |-> speakerDisplay]
  ELSE [inquirer |-> inquirer, responder |-> responder]

identifySpeakerRoles(inquirer, responder, speakerDisplay) ==
  IF ~Truthy(inquirer)
  THEN [inquirer |-> speakerDisplay, responder |-> responder]
  ELSE IF ~Truthy(responder) /\ speakerDisplay # inquirer
  THEN [inquirer |-> inquirer, responder |-> speakerDisplay]
  ELSE [inquirer |-> inquirer, responder |-> responder]

\* faulty variant: the check forgets who spoke last
shouldTriggerOnResponder(lastSpeaker, lastTranscript, inquirer, responder, speakerDisplay) ==
  /\ speakerDisplay = responder
  /\ Truthy(lastTranscript)

\* faulty variant: the check fires on every change of speaker
shouldTriggerOnAnyTurn(lastSpeaker, lastTranscript, inquirer, responder, speakerDisplay) ==
  /\ lastSpeaker # speakerDisplay
  /\ Truthy(lastTranscript)

shouldTriggerEvaluation(lastSpeaker, lastTranscript, inquirer, responder, speakerDisplay) ==
  /\ lastSpeaker = inquirer
  /\ speakerDisplay = responder
  /\ Truthy(lastTranscript)

\* faulty variant: the write does not look at readyState
sendMessageUnguarded(out, open, msg) == Append(out, msg)

\* sendMessage: the write happens only on an open socket
sendMessage(out, open, msg) == IF open THEN Append(out, msg) ELSE out

TranscriptMsg(transcript, isFinal, speaker) ==
  [type |-> "transcript", transcript |-> transcript, isFinal |-> isFinal, speaker |-> speaker]

\* faulty variant: the event carries the initial summary, not the current one
SummaryMsgInitial(summary) == [type |-> "summary", summary |-> INITIAL_SUMMARY]

SummaryMsg(summary) == [type |-> "summary", summary |-> summary]

\* faulty variant: the event quotes the whole history
LlmEvalMsgWholeHistory(evalResult, trigger, summary, history) ==
  [type |-> "llm_eval",
   llm |-> [ready_for_suggestions |-> evalResult.ready_for_suggestions,
            is_rag_required |-> evalResult.is_rag_required,
            user_context |-> evalResult.user_context,
            trigger |-> trigger,
            summary |-> summary,
            history |-> history]]

LlmEvalMsg(evalResult, trigger, summary, history) ==
  [type |-> "llm_eval",
   llm |-> [ready_for_suggestions |-> evalResult.ready_for_suggestions,
            is_rag_required |-> evalResult.is_rag_required,
            user_context |-> evalResult.user_context,
            trigger |-> trigger,
            summary |-> summary,
            history |-> Last(history, MAX_HISTORY_ITEMS)]]

SuggestionsMsg(card) == [type |-> "suggestions", suggestions |-> <<card>>]

\* sendError
ErrorMsg(message) == [type |-> "error", error |-> message]

\* the catch of startTranscription: a warning is only logged
sendStreamError(out, open, code) ==
  IF handleTranscriptionError(code).type = "warning" THEN out
  ELSE sendMessage(out, open, ErrorMsg(handleTranscriptionError(code).message))

\* faulty variant: stage 2 is guarded by the wrong field
readyForSuggestionsByRag(evalResult) == evalResult.is_rag_required = JStr("yes")

\* line 239: the guard of stage 2
readyForSuggestions(evalResult) == evalResult.ready_for_suggestions = JStr("yes")

\* faulty variant: stage 2 always retrieves
ragRequiredAlways(evalResult) == TRUE

\* line 266: the guard of the retrieval
ragRequired(evalResult) == evalResult.is_rag_required = JStr("yes")

\* faulty variant: only an accepted evaluation is reported
sendEvaluationIfReady(out, open, evalResult, trigger, summary, history) ==
  IF evalResult.ready_for_suggestions = JStr("yes")
  THEN sendMessage(out, open, LlmEvalMsg(evalResult, trigger, summary, history))
  ELSE out

\* lines 226-236: the llm_eval write of performLLMEvaluation
sendEvaluation(out, open, evalResult, trigger, summary, history) ==
  sendMessage(out, open, LlmEvalMsg(evalResult, trigger, summary, history))

\* lines 283-289: the suggestions write of generateSuggestions; card <<>>
\* stands for an error thrown by the generation, which the catch only logs
sendSuggestions(out, open, card) ==
  IF card = <<>> THEN out ELSE sendMessage(out, open, SuggestionsMsg(card[1]))

\* lines 105-112: the for-await loop awaits handleTranscriptionData, which
\* awaits processFinalTranscript: the next event is taken when no handler runs
\* faulty variant: the loop calls the handler without awaiting it
LoopReadyDetached == TRUE

\* faulty variant: processFinalTranscript starts performLLMEvaluation without
\* awaiting it
LoopReadyEvaluationDetached == \A i \in DOMAIN inflight : inflight[i].stage = "eval"

\* faulty variant: handleTranscriptionData starts processFinalTranscript without
\* awaiting it once the summary call is out
LoopReadyAfterSummary == \A i \in DOMAIN inflight : inflight[i].stage # "summary"

\* faulty variant: a failed provider call ends the loop
LoopReadyUntilFailure == inflight = <<>> /\ failures = 0

\* faulty variant: performLLMEvaluation starts generateSuggestions without
\* awaiting it
LoopReadyGenerationDetached == \A i \in DOMAIN inflight : inflight[i].stage \in {"rag", "gen"}

LoopReady == inflight = <<>>

\* lines 160-166: lastFinalSpeaker/lastFinalTranscript right after the
\* trigger check of frame f; with a trigger the overwrite waits for
\* performLLMEvaluation to return
\* faulty variant: the overwrite does not wait for performLLMEvaluation
LastFinalOverwrittenAtOnce(trigger, f) == <<f.speakerDisplay, f.transcript>>

LastFinalAfterCheck(trigger, f) ==
  IF trigger THEN <<lastFinalSpeaker, lastFinalTranscript>>
  ELSE <<f.speakerDisplay, f.transcript>>

\* ---------------------------------------------------------- model replies
NoEvalResult ==
  [ready_for_suggestions |-> JUndef, is_rag_required |-> JUndef, user_context |-> JUndef]

EvalObject(ready, ragNeeded) ==
  <<LB, Tok("ready_for_suggestions", JStr(ready)), Tok("is_rag_required", JStr(ragNeeded)),
    Tok("user_context", JStr("intent")), RB>>

\* texts the evaluation model may answer with: the four verdict objects,
\* prose without an object, prose in braces, and an object followed by prose
\* with a brace
EvalReplies ==
  { EvalObject(r, g) : r \in {"yes", "no"}, g \in {"yes", "no"} } \cup
  { <<TXT>>, <<LB, TXT, RB>>, EvalObject("yes", "no") \o <<TXT, RB>> }

\* texts the generation model may answer with: a full card, a card without
\* title, prose followed by a card with a title only, and prose without an
\* object
GenReplies ==
  { <<LB, Tok("trigger", JStr("quote")), Tok("title", JStr("Handle objection")),
      Tok("points", JArr(<<"Acknowledge", "Offer">>)), RB>>,
    <<LB, Tok("trigger", JStr("quote")), Tok("points", JArr(<<"Acknowledge", "Offer">>)), RB>>,
    <<TXT, LB, Tok("title", JStr("Handle objection")), RB>>,
    <<TXT>> }

Option(S) == {<<>>} \cup {<<x>> : x \in S}

Failed(reply) == IF reply = <<>> THEN 1 ELSE 0

NewFrame(at, transcript, speakerDisplay, summaryArg) ==
  [stage |-> "summary", at |-> at, transcript |-> transcript,
   speakerDisplay |-> speakerDisplay, summaryArg |-> summaryArg,
   evalResult |-> NoEvalResult, trigger |-> NULL, ragContext |-> <<>>]

Call(svc, text, at) == [svc |-> svc, text |-> text, at |-> at]

\* a call of stage 1 or stage 2, which is also given this.ragSummary and the
\* whole history, of which the prompt quotes the last MAX_HISTORY_ITEMS
\* entries
PromptCall(svc, text, at) ==
  [svc |-> svc, text |-> text, at |-> at, digest |-> ragSummary,
   history |-> Last(conversationHistory, MAX_HISTORY_ITEMS)]

Reply(svc, reply) == [svc |-> svc, reply |-> reply]

\* the handlers of the model, as members of WebSocketManager.connections
Handler(n) == <<"connectionHandler", "connectionHandler 2">>[n]

\* the handler whose fields the variables hold
Self == Handler(current)

\* no service method is being called on its own
NoProbe == [fn |-> "none"]

\* there is no second handler
NoSession == [phase |-> "none"]

\* text of the knowledge-base digest the summarizer answers with
DigestReply == "knowledge base digest"

SummaryCalls == Cardinality({c \in 1..Len(calls) : calls[c].svc = "summary"})

\* ------------------------------------------------------------------ Init
\* the fields of a handler after its constructor
Fresh ==
  /\ phase = "accepted"
  /\ streamError = NoStreamError
  /\ ragSummary = ""
  /\ listeners = {}
  /\ audioBuffer = <<>>
  /\ framesSent = 0
  /\ lastIndex = 0
  /\ audioGen = "idle"
  /\ yielded = <<>>
  /\ lastReply = Reply("none", <<>>)
  /\ wsOpen = TRUE
  /\ isClosed = FALSE
  /\ speakerMap = [t \in Tags |-> NULL]
  /\ speakerCount = 1
  /\ conversationHistory = <<>>
  /\ conversationSummary = INITIAL_SUMMARY
  /\ lastFinalSpeaker = NULL
  /\ lastFinalTranscript = NULL
  /\ inquirerSpeaker = NULL
  /\ responderSpeaker = NULL
  /\ inflight = <<>>
  /\ sent = <<>>
  /\ events = <<>>
  /\ calls = <<>>
  /\ rawCount = 0
  /\ failures = 0

\* handleNewConnection has constructed the handler and added it to
\* connections; ragService was initialized at server start, with or without
\* a vector file
Init ==
  /\ Fresh
  /\ rag \in { [isInitialized |-> TRUE, salesVectors |-> v] : v \in {<<>>, Corpus} }
  /\ current = 1
  /\ connections = {Self}
  /\ probe = NoProbe
  /\ other = NoSession

\* --------------------------------------------------------------- actions
\* initialize() from setupEventHandlers to the pending recognition request:
\* the socket listeners are registered, the audio generator is created with
\* the command and the request is sent
startTranscription(log) ==
  /\ listeners' = listeners \cup {"message", "close"}
  /\ audioGen' = "running"
  /\ phase' = "starting"
  /\ calls' = Append(log, Call("transcribe", "", 0))

\* initialize() up to its first pending await: precomputeRAGSummary asks for
\* the overview chunks; without vectors the retrieval returns [] (or throws,
\* when the service is not initialized) and generateRAGSummary returns ""
\* without a provider call
initialize ==
  /\ phase = "accepted"
  /\ IF ~rag.isInitialized \/ rag.salesVectors = <<>>
     THEN /\ ragSummary' = ""
          /\ startTranscription(Append(calls, Call("retrieve", "overview", 0)))
     ELSE /\ phase' = "overview"
          /\ calls' = calls \o <<Call("retrieve", "overview", 0), Call("embed", "overview", 0)>>
          /\ UNCHANGED <<ragSummary, listeners, audioGen>>
  /\ UNCHANGED <<socket, registry, conversationHistory, conversationSummary, lastFinal,
                 roles, fixed, inflight, sent, events, rawCount, failures, streamError,
                 connections, audioBuffer, framesSent, lastIndex, yielded, lastReply>>

\* the embedding call of getOverviewChunks returns
OverviewReturns(reply) ==
  LET topChunks == getTopKRelevantChunks(rag.salesVectors, reply, RAG_CHUNKS_COUNT)
  IN  /\ phase = "overview"
      /\ failures + Failed(reply) <= MaxFailures
      /\ failures' = failures + Failed(reply)
      /\ lastReply' = Reply("embed", reply)
      /\ IF topChunks = <<>>
         THEN /\ ragSummary' = ""
              /\ startTranscription(calls)
         ELSE /\ phase' = "digest"
              /\ calls' = Append(calls, Call("digest", "overview", 0))
              /\ UNCHANGED <<ragSummary, listeners, audioGen>>
      /\ UNCHANGED <<socket, registry, conversationHistory, conversationSummary, lastFinal,
                     roles, fixed, inflight, sent, events, rawCount, streamError,
                     connections, audioBuffer, framesSent, lastIndex, yielded>>

\* the provider call of generateRAGSummary returns
DigestReturns(reply) ==
  /\ phase = "digest"
  /\ failures + Failed(reply) <= MaxFailures
  /\ failures' = failures + Failed(reply)
  /\ lastReply' = Reply("digest", reply)
  /\ ragSummary' = generateRAGSummary(reply)
  /\ startTranscription(calls)
  /\ UNCHANGED <<socket, registry, conversationHistory, conversationSummary, lastFinal,
                 roles, fixed, inflight, sent, events, rawCount, streamError,
                 connections, audioBuffer, framesSent, lastIndex, yielded>>

\* client.send resolves: startTranscription enters the for-await loop
StreamOpens ==
  /\ phase = "starting"
  /\ phase' = "streaming"
  /\ UNCHANGED <<socket, registry, conversationHistory, conversationSummary, lastFinal,
                 roles, fixed, inflight, sent, events, calls, rawCount, failures,
                 streamError, ragSummary, listeners, connections, audio, lastReply>>

\* initialize() returns to handleNewConnection, which registers its cleanup
initializeReturns ==
  /\ phase' = "returned"
  /\ listeners' = listeners \cup {"cleanup"}

\* client.send rejects, or the result stream throws in place of the next
\* event the loop asks for: the catch of startTranscription runs
StreamFails(code) ==
  /\ phase \in {"starting", "streaming"}
  /\ LoopReady
  /\ rawCount < MaxEvents
  /\ streamError' = StreamError(code, phase = "streaming")
  /\ sent' = sendStreamError(sent, wsOpen, code)
  /\ lastReply' = Reply("none", <<>>)
  /\ initializeReturns
  /\ UNCHANGED <<socket, registry, conversationHistory, conversationSummary, lastFinal,
                 roles, fixed, inflight, events, calls, rawCount, failures,
                 ragSummary, connections, audio>>

\* the result stream ends after the audio stream has ended
StreamEnds ==
  /\ phase = "streaming"
  /\ LoopReady
  /\ audioGen = "ended"
  /\ lastReply' = Reply("none", <<>>)
  /\ initializeReturns
  /\ UNCHANGED <<socket, registry, conversationHistory, conversationSummary, lastFinal,
                 roles, fixed, inflight, sent, events, calls, rawCount, failures,
                 streamError, ragSummary, connections, audio>>

\* faulty variant: the push waits until no handler of the session is suspended
AudioFrameWhenIdle ==
  /\ phase # "accepted"
  /\ wsOpen
  /\ inflight = <<>>
  /\ framesSent < MaxFrames
  /\ framesSent' = framesSent + 1
  /\ audioBuffer' = IF "message" \in listeners
                    THEN Append(audioBuffer, framesSent + 1) ELSE audioBuffer
  /\ UNCHANGED <<socket, registry, conversationHistory, conversationSummary, lastFinal,
                 roles, fixed, inflight, sent, events, calls, rawCount, failures,
                 lifecycle, lastIndex, yielded, audioGen, lastReply>>

\* the client sends an audio frame, one of at most `limit`: the "message"
\* listener, when registered, pushes it
ClientFrame(limit) ==
  /\ phase # "accepted"
  /\ wsOpen
  /\ framesSent < limit
  /\ framesSent' = framesSent + 1
  /\ audioBuffer' = IF "message" \in listeners
                    THEN Append(audioBuffer, framesSent + 1) ELSE audioBuffer
  /\ UNCHANGED <<socket, registry, conversationHistory, conversationSummary, lastFinal,
                 roles, fixed, inflight, sent, events, calls, rawCount, failures,
                 lifecycle, lastIndex, yielded, audioGen, lastReply>>

AudioFrame == ClientFrame(MaxFrames)

\* the empty chunk that ends the audio stream
EndChunk == 0

\* faulty variant: the loop ends as soon as the socket has closed
AudioGeneratorStepUntilClose ==
  /\ audioGen = "running"
  /\ phase \in {"starting", "streaming"}
  /\ IF ~isClosed
     THEN /\ lastIndex < Len(audioBuffer)
          /\ lastIndex' = lastIndex + 1
          /\ yielded' = Append(yielded, audioBuffer[lastIndex + 1])
          /\ UNCHANGED audioGen
     ELSE /\ audioGen' = "ended"
          /\ yielded' = Append(yielded, EndChunk)
          /\ UNCHANGED lastIndex
  /\ UNCHANGED <<socket, registry, conversationHistory, conversationSummary, lastFinal,
                 roles, fixed, inflight, sent, events, calls, rawCount, failures,
                 lifecycle, audioBuffer, framesSent, lastReply>>

\* one turn of the while loop of createAudioStreamGenerator, consumed by the
\* recognition request: the next chunk, or the empty chunk after the loop
AudioGeneratorStep ==
  /\ audioGen = "running"
  /\ phase \in {"starting", "streaming"}
  /\ IF lastIndex < Len(audioBuffer)
     THEN /\ lastIndex' = lastIndex + 1
          /\ yielded' = Append(yielded, audioBuffer[lastIndex + 1])
          /\ UNCHANGED audioGen
     ELSE /\ isClosed
          /\ audioGen' = "ended"
          /\ yielded' = Append(yielded, EndChunk)
          /\ UNCHANGED lastIndex
  /\ UNCHANGED <<socket, registry, conversationHistory, conversationSummary, lastFinal,
                 roles, fixed, inflight, sent, events, calls, rawCount, failures,
                 lifecycle, audioBuffer, framesSent, lastReply>>

\* faulty variant: every event is processed as a final one
handleTranscriptionDataAsFinal(data) ==
  LET sp == getSpeakerDisplay(speakerMap, speakerCount, data.awsSpeaker)
      at == Len(events) + 1
  IN  /\ speakerMap' = sp.map
      /\ speakerCount' = sp.count
      /\ sent' = sendMessage(sent, wsOpen, TranscriptMsg(data.transcript, data.isFinal, sp.label))
      /\ events' = Append(events, data)
      /\ conversationHistory' = Append(conversationHistory, <<sp.label, data.transcript>>)
      /\ inflight' = Append(inflight,
                       NewFrame(at, data.transcript, sp.label, conversationSummary))
      /\ calls' = Append(calls, Call("summary", data.transcript, at))
      /\ UNCHANGED <<socket, conversationSummary, lastFinal, roles, fixed, failures,
                     lifecycle, audio>>

\* handleTranscriptionData up to its first pending await
handleTranscriptionData(data) ==
  LET sp == getSpeakerDisplay(speakerMap, speakerCount, data.awsSpeaker)
      at == Len(events) + 1
  IN  /\ speakerMap' = sp.map
      /\ speakerCount' = sp.count
      /\ sent' = sendMessage(sent, wsOpen, TranscriptMsg(data.transcript, data.isFinal, sp.label))
      /\ events' = Append(events, data)
      /\ IF data.isFinal
         THEN /\ conversationHistory' = Append(conversationHistory, <<sp.label, data.transcript>>)
              /\ inflight' = Append(inflight,
                               NewFrame(at, data.transcript, sp.label, conversationSummary))
              /\ calls' = Append(calls, Call("summary", data.transcript, at))
         ELSE UNCHANGED <<conversationHistory, inflight, calls>>
      /\ UNCHANGED <<socket, conversationSummary, lastFinal, roles, fixed, failures,
                     lifecycle, audio>>

\* one turn of the for-await loop of processTranscriptionStream
StreamEvent(raw) ==
  /\ phase = "streaming"
  /\ LoopReady
  /\ rawCount' = rawCount + 1
  /\ lastReply' = Reply("event", <<raw>>)
  /\ LET data == processTranscriptionEvent(raw)
     IN  IF data = <<>>
         THEN UNCHANGED <<socket, registry, conversationHistory, conversationSummary,
                          lastFinal, roles, fixed, inflight, sent, events, calls, failures,
                          lifecycle, audio>>
         ELSE handleTranscriptionData(data[1])

\* the recognizer delivers its next result
RecognizerEvent ==
  /\ rawCount < MaxEvents
  /\ \E raw \in RawEvents(rawCount + 1, speakerCount - 1) : StreamEvent(raw)

\* the summarizer call of frame i returns: processFinalTranscript runs on to
\* its end or to the evaluation call
SummaryReturns(i, reply) ==
  LET f == inflight[i]
      summary == updateConversationSummary(f.summaryArg, reply)
      r == identifySpeakerRoles(inquirerSpeaker, responderSpeaker, f.speakerDisplay)
      trigger == shouldTriggerEvaluation(lastFinalSpeaker, lastFinalTranscript,
                                         r.inquirer, r.responder, f.speakerDisplay)
      after == LastFinalAfterCheck(trigger, f)
  IN  /\ f.stage = "summary"
      /\ failures + Failed(reply) <= MaxFailures
      /\ failures' = failures + Failed(reply)
      /\ conversationSummary' = summary
      /\ sent' = sendMessage(sent, wsOpen, SummaryMsg(summary))
      /\ inquirerSpeaker' = r.inquirer
      /\ responderSpeaker' = r.responder
      /\ lastFinalSpeaker' = after[1]
      /\ lastFinalTranscript' = after[2]
      /\ IF trigger
         THEN /\ inflight' = [inflight EXCEPT ![i].stage = "eval"]
              /\ calls' = Append(calls, PromptCall("eval", lastFinalTranscript, f.at))
         ELSE /\ inflight' = RemoveAt(inflight, i)
              /\ UNCHANGED calls
      /\ lastReply' = Reply("summary", reply)
      /\ UNCHANGED <<socket, registry, conversationHistory, fixed, events, rawCount,
                     lifecycle, audio>>

\* the evaluation call of frame i returns: performLLMEvaluation writes the
\* llm_eval event and runs on to its end, to the embedding call or to the
\* generation call
EvaluationReturns(i, reply) ==
  LET f == inflight[i]
      evalResult == evaluateForSuggestions(reply)
      stage2 == readyForSuggestions(evalResult)
      lookup == stage2 /\ ragRequired(evalResult)
      threw == lookup /\ ~rag.isInitialized
      embed == lookup /\ rag.isInitialized /\ rag.salesVectors # <<>>
  IN  /\ f.stage = "eval"
      /\ failures + Failed(reply) <= MaxFailures
      /\ failures' = failures + Failed(reply)
      /\ sent' = sendEvaluation(sent, wsOpen, evalResult, lastFinalTranscript,
                                conversationSummary, conversationHistory)
      /\ IF ~stage2 \/ threw
         THEN /\ inflight' = RemoveAt(inflight, i)
              /\ lastFinalSpeaker' = f.speakerDisplay
              /\ lastFinalTranscript' = f.transcript
              /\ calls' = IF threw
                          THEN Append(calls, Call("retrieve", lastFinalTranscript, f.at))
                          ELSE calls
         ELSE IF embed
         THEN /\ inflight' = [inflight EXCEPT ![i].stage = "rag", ![i].evalResult = evalResult]
              /\ calls' = calls \o <<Call("retrieve", lastFinalTranscript, f.at),
                                      Call("embed", lastFinalTranscript, f.at)>>
              /\ UNCHANGED lastFinal
         ELSE /\ inflight' = [inflight EXCEPT ![i].stage = "gen", ![i].evalResult = evalResult,
                                               ![i].trigger = lastFinalTranscript]
              /\ calls' = (IF lookup
                           THEN Append(calls, Call("retrieve", lastFinalTranscript, f.at))
                           ELSE calls) \o <<PromptCall("gen", lastFinalTranscript, f.at)>>
              /\ UNCHANGED lastFinal
      /\ lastReply' = Reply("eval", reply)
      /\ UNCHANGED <<socket, registry, conversationHistory, conversationSummary, roles,
                     fixed, events, rawCount, lifecycle, audio>>

\* faulty variant: the error of the embedder leaves getTopKRelevantChunks
\* and ends generateSuggestions in its catch
RetrievalReturnsAborting(i, reply) ==
  LET f == inflight[i]
      topChunks == getTopKRelevantChunks(rag.salesVectors, reply, RAG_CHUNKS_COUNT)
  IN  /\ f.stage = "rag"
      /\ failures + Failed(reply) <= MaxFailures
      /\ failures' = failures + Failed(reply)
      /\ IF reply = <<>>
         THEN /\ inflight' = RemoveAt(inflight, i)
              /\ lastFinalSpeaker' = f.speakerDisplay
              /\ lastFinalTranscript' = f.transcript
              /\ UNCHANGED calls
         ELSE /\ inflight' = [inflight EXCEPT ![i].stage = "gen", ![i].ragContext = topChunks,
                                              ![i].trigger = lastFinalTranscript]
              /\ calls' = Append(calls, PromptCall("gen", lastFinalTranscript, f.at))
              /\ UNCHANGED lastFinal
      /\ lastReply' = Reply("embed", reply)
      /\ UNCHANGED <<socket, registry, conversationHistory, conversationSummary,
                     roles, fixed, sent, events, rawCount, lifecycle, audio>>

\* the embedding call of frame i returns: getTopKRelevantChunks ranks the
\* corpus (or catches the error) and generateSuggestions calls the generation
RetrievalReturns(i, reply) ==
  LET f == inflight[i]
      topChunks == getTopKRelevantChunks(rag.salesVectors, reply, RAG_CHUNKS_COUNT)
  IN  /\ f.stage = "rag"
      /\ failures + Failed(reply) <= MaxFailures
      /\ failures' = failures + Failed(reply)
      /\ inflight' = [inflight EXCEPT ![i].stage = "gen", ![i].ragContext = topChunks,
                                      ![i].trigger = lastFinalTranscript]
      /\ calls' = Append(calls, PromptCall("gen", lastFinalTranscript, f.at))
      /\ lastReply' = Reply("embed", reply)
      /\ UNCHANGED <<socket, registry, conversationHistory, conversationSummary, lastFinal,
                     roles, fixed, sent, events, rawCount, lifecycle, audio>>

\* the generation call of frame i returns: the card is written and
\* processFinalTranscript overwrites lastFinalSpeaker/lastFinalTranscript
GenerationReturns(i, reply) ==
  LET f == inflight[i]
      card == generateSuggestions(reply, f.trigger)
  IN  /\ f.stage = "gen"
      /\ failures + Failed(reply) <= MaxFailures
      /\ failures' = failures + Failed(reply)
      /\ sent' = sendSuggestions(sent, wsOpen, card)
      /\ inflight' = RemoveAt(inflight, i)
      /\ lastFinalSpeaker' = f.speakerDisplay
      /\ lastFinalTranscript' = f.transcript
      /\ lastReply' = Reply("gen", reply)
      /\ UNCHANGED <<socket, registry, conversationHistory, conversationSummary, roles,
                     fixed, events, calls, rawCount, lifecycle, audio>>

\* the socket closes (no socket event is dispatched before initialize() has
\* reached its first pending call): readyState leaves OPEN and the "close" listeners
\* registered so far run, the one of setupEventHandlers setting the flag and
\* the one of handleNewConnection deleting the handler from connections
SocketClose ==
  /\ phase # "accepted"
  /\ wsOpen
  /\ wsOpen' = FALSE
  /\ isClosed' = (isClosed \/ "close" \in listeners)
  /\ connections' = IF "cleanup" \in listeners THEN connections \ {Self} ELSE connections
  /\ UNCHANGED <<registry, conversationHistory, conversationSummary, lastFinal, roles,
                 fixed, inflight, sent, events, calls, rawCount, failures,
                 phase, streamError, ragSummary, listeners, audio, lastReply>>

SummaryStep ==
  \E i \in DOMAIN inflight : \E reply \in Option({SummaryReply(SummaryCalls)}) :
    SummaryReturns(i, reply)

EvaluationStep ==
  \E i \in DOMAIN inflight : \E reply \in Option(EvalReplies) : EvaluationReturns(i, reply)

RetrievalStep ==
  \E i \in DOMAIN inflight : \E reply \in Option(ScoreVectors) : RetrievalReturns(i, reply)

GenerationStep ==
  \E i \in DOMAIN inflight : \E reply \in Option(GenReplies) : GenerationReturns(i, reply)

OverviewStep == \E reply \in Option(ScoreVectors) : OverviewReturns(reply)

DigestStep == \E reply \in Option({DigestReply}) : DigestReturns(reply)

StreamFailure == \E code \in StreamErrors : StreamFails(code)

Next ==
  \/ initialize
  \/ OverviewStep
  \/ DigestStep
  \/ StreamOpens
  \/ StreamFailure
  \/ StreamEnds
  \/ RecognizerEvent
  \/ SummaryStep
  \/ EvaluationStep
  \/ RetrievalStep
  \/ GenerationStep
  \/ AudioFrame
  \/ AudioGeneratorStep
  \/ SocketClose

Spec == Init /\ [][Next]_vars

\* the steps node.js runs by itself: continuations of answered calls and the
\* timers of the audio generator; the client (frames, close) and the
\* recognizer (events, errors) owe nothing
Progress ==
  \/ initialize
  \/ OverviewStep
  \/ DigestStep
  \/ StreamOpens
  \/ StreamEnds
  \/ SummaryStep
  \/ EvaluationStep
  \/ RetrievalStep
  \/ GenerationStep

FairSpec == Spec /\ WF_vars(Progress) /\ WF_vars(AudioGeneratorStep)

\* ------------------------------------------------- retrieval on its own
\* corpora ragService may have loaded: the first n chunks of the vector file
Corpora == {SubSeq(Corpus, 1, n) : n \in 0..Len(Corpus)}

\* answers of the embedding provider for a corpus of n entries
Scores(n) == [1..n -> 0..MaxScore]

\* getTopKRelevantChunks(query, k) has been called
TopKProbe(k) ==
  [fn |-> "getTopKRelevantChunks", k |-> k, stage |-> "called", embedCalls |-> 0,
   scores |-> <<>>, result |-> <<>>]

\* the server has started, with ragService initialized or not and with or
\* without vectors, and no connection has been accepted
RetrievalInit ==
  /\ Fresh
  /\ rag \in { [isInitialized |-> b, salesVectors |-> v] : b \in BOOLEAN, v \in Corpora }
  /\ current = 1
  /\ connections = {}
  /\ other = NoSession
  /\ probe \in { TopKProbe(k) : k \in (-1)..MaxK }

\* getTopKRelevantChunks up to its pending await: it throws when the service
\* is not initialized, returns [] when there are no vectors, and otherwise
\* asks the embedder for the query's vector
TopKCalled ==
  /\ probe.fn = "getTopKRelevantChunks"
  /\ probe.stage = "called"
  /\ probe' = IF ~rag.isInitialized THEN [probe EXCEPT !.stage = "thrown"]
              ELSE IF rag.salesVectors = <<>> THEN [probe EXCEPT !.stage = "returned"]
              ELSE [probe EXCEPT !.stage = "embedding", !.embedCalls = @ + 1]
  /\ UNCHANGED <<fields, rag, connections, current, other>>

\* the embedder answers (or throws) and getTopKRelevantChunks returns
TopKEmbedReturns(reply) ==
  /\ probe.fn = "getTopKRelevantChunks"
  /\ probe.stage = "embedding"
  /\ probe' = [probe EXCEPT !.stage = "returned", !.scores = reply,
                            !.result = getTopKRelevantChunks(rag.salesVectors, reply, probe.k)]
  /\ UNCHANGED <<fields, rag, connections, current, other>>

TopKEmbedStep == \E reply \in Option(Scores(Len(rag.salesVectors))) : TopKEmbedReturns(reply)

RetrievalNext ==
  \/ TopKCalled
  \/ TopKEmbedStep

RetrievalSpec == RetrievalInit /\ [][RetrievalNext]_vars

\* ------------------------------------------------ similarity on its own
Vectors == [1..Dim -> (-MaxCoord)..MaxCoord]

\* cosineSimilarity(a, b) has been called
SimilarityProbe(a, b) ==
  [fn |-> "cosineSimilarity", a |-> a, b |-> b, stage |-> "called", result |-> NaN]

SimilarityInit ==
  /\ Fresh
  /\ rag = [isInitialized |-> FALSE, salesVectors |-> <<>>]
  /\ current = 1
  /\ connections = {}
  /\ other = NoSession
  /\ probe \in { SimilarityProbe(a, b) : a \in Vectors, b \in Vectors }

\* cosineSimilarity returns
SimilarityReturns ==
  /\ probe.fn = "cosineSimilarity"
  /\ probe.stage = "called"
  /\ probe' = [probe EXCEPT !.stage = "returned", !.result = cosineSimilarity(probe.a, probe.b)]
  /\ UNCHANGED <<fields, rag, connections, current, other>>

SimilarityNext == SimilarityReturns

SimilaritySpec == SimilarityInit /\ [][SimilarityNext]_vars

\* ------------------------------------------- suggestion parsing on its own
\* member values a stage-2 output may carry: a non-empty string, the empty
\* string or no member; for points a non-empty array, the empty array, a
\* string or no member
CardStrings(x) == {JStr(x), JStr(""), JUndef}
CardPoints == {JArr(<<"Acknowledge", "Offer">>), JArr(<<>>), JStr("Acknowledge"), JUndef}

Member(key, v) == IF v = JUndef THEN <<>> ELSE <<Tok(key, v)>>

\* the text of the JSON object {"trigger": t, "title": h, "points": p}
CardText(t, h, p) ==
  <<LB>> \o Member("trigger", t) \o Member("title", h) \o Member("points", p) \o <<RB>>

\* text around the object: none, prose, prose with a brace pair, prose with
\* one brace
TextBefore == {<<>>, <<TXT>>, <<LB, TXT, RB>>, <<TXT, LB>>}
TextAfter == {<<>>, <<TXT>>, <<LB, TXT, RB>>, <<TXT, RB>>}

SuggestionOutputs ==
  { b \o CardText(t, h, p) \o a :
      b \in TextBefore, a \in TextAfter,
      t \in CardStrings("quote"), h \in CardStrings("Handle objection"), p \in CardPoints }

\* parseSuggestionResponse(text, fallbackTrigger) or
\* createFallbackSuggestion(fallbackTrigger, reason) has been called
ParseProbe(fn, text, reason, fallbackTrigger) ==
  [fn |-> fn, text |-> text, reason |-> reason, fallbackTrigger |-> fallbackTrigger,
   stage |-> "called", result |-> createFallbackSuggestion("", "")]

ParseInit ==
  /\ Fresh
  /\ rag = [isInitialized |-> FALSE, salesVectors |-> <<>>]
  /\ current = 1
  /\ connections = {}
  /\ other = NoSession
  /\ probe \in { ParseProbe("parseSuggestionResponse", s, "", t) :
                   s \in SuggestionOutputs \cup {<<TXT>>}, t \in {"u1", "u2"} } \cup
               { ParseProbe("createFallbackSuggestion", <<>>, r, t) :
                   r \in {"Could not parse LLM response", "test reason"}, t \in {"u1", "test trigger"} }

ParseReturns ==
  /\ probe.fn = "parseSuggestionResponse"
  /\ probe.stage = "called"
  /\ probe' = [probe EXCEPT !.stage = "returned",
                            !.result = parseSuggestionResponse(probe.text, probe.fallbackTrigger)]
  /\ UNCHANGED <<fields, rag, connections, current, other>>

FallbackReturns ==
  /\ probe.fn = "createFallbackSuggestion"
  /\ probe.stage = "called"
  /\ probe' = [probe EXCEPT !.stage = "returned",
                            !.result = createFallbackSuggestion(probe.fallbackTrigger, probe.reason)]
  /\ UNCHANGED <<fields, rag, connections, current, other>>

ParseNext ==
  \/ ParseReturns
  \/ FallbackReturns

ParseSpec == ParseInit /\ [][ParseNext]_vars

\* ------------------------------------------------------- silent session
\* the client streams audio in which the recognizer finds no speech: no
\* result is delivered
AudioBurst == ClientFrame(MaxBurst)

AudioNext ==
  \/ initialize
  \/ OverviewStep
  \/ DigestStep
  \/ StreamOpens
  \/ StreamFailure
  \/ StreamEnds
  \/ AudioBurst
  \/ AudioGeneratorStep
  \/ SocketClose

AudioSpec == Init /\ [][AudioNext]_vars

\* ------------------------------------------------------ scripted session
\* the recognizer delivers five results: final A "hi", partial A, final B
\* "how can I help", final A "price too high", final B
Scenario ==
  << [shape |-> "result", text |-> "hi", isPartial |-> FALSE, speaker |-> TagName(1)],
     [shape |-> "result", text |-> "(ignored partial)", isPartial |-> TRUE, speaker |-> TagName(1)],
     [shape |-> "result", text |-> "how can I help", isPartial |-> FALSE, speaker |-> TagName(2)],
     [shape |-> "result", text |-> "price too high", isPartial |-> FALSE, speaker |-> TagName(1)],
     [shape |-> "result", text |-> "<stage2 output>", isPartial |-> FALSE, speaker |-> TagName(2)] >>

ScriptedEvent ==
  /\ rawCount < Len(Scenario)
  /\ StreamEvent(Scenario[rawCount + 1])

ScenarioNext ==
  \/ initialize
  \/ OverviewStep
  \/ DigestStep
  \/ StreamOpens
  \/ StreamFailure
  \/ StreamEnds
  \/ ScriptedEvent
  \/ SummaryStep
  \/ EvaluationStep
  \/ RetrievalStep
  \/ GenerationStep
  \/ AudioFrame
  \/ AudioGeneratorStep
  \/ SocketClose

ScenarioSpec == Init /\ [][ScenarioNext]_vars

\* ---------------------------------------------------------- two sessions
\* the fields of the handler the variables hold, as one record
Snapshot ==
  [wsOpen |-> wsOpen, isClosed |-> isClosed, speakerMap |-> speakerMap,
   speakerCount |-> speakerCount, conversationHistory |-> conversationHistory,
   conversationSummary |-> conversationSummary, lastFinalSpeaker |-> lastFinalSpeaker,
   lastFinalTranscript |-> lastFinalTranscript, inquirerSpeaker |-> inquirerSpeaker,
   responderSpeaker |-> responderSpeaker, inflight |-> inflight, sent |-> sent,
   events |-> events, calls |-> calls, rawCount |-> rawCount, failures |-> failures,
   phase |-> phase, streamError |-> streamError, ragSummary |-> ragSummary,
   listeners |-> listeners, audioBuffer |-> audioBuffer, framesSent |-> framesSent,
   lastIndex |-> lastIndex, audioGen |-> audioGen, yielded |-> yielded,
   lastReply |-> lastReply]

\* faulty variant: speakerMap and speakerCount belong to the module, not to
\* the handler
SwitchSharingRegistry ==
  /\ other # NoSession
  /\ current' = 3 - current
  /\ other' = Snapshot
  /\ wsOpen' = other.wsOpen
  /\ isClosed' = other.isClosed
  /\ conversationHistory' = other.conversationHistory
  /\ conversationSummary' = other.conversationSummary
  /\ lastFinalSpeaker' = other.lastFinalSpeaker
  /\ lastFinalTranscript' = other.lastFinalTranscript
  /\ inquirerSpeaker' = other.inquirerSpeaker
  /\ responderSpeaker' = other.responderSpeaker
  /\ inflight' = other.inflight
  /\ sent' = other.sent
  /\ events' = other.events
  /\ calls' = other.calls
  /\ rawCount' = other.rawCount
  /\ failures' = other.failures
  /\ phase' = other.phase
  /\ streamError' = other.streamError
  /\ ragSummary' = other.ragSummary
  /\ listeners' = other.listeners
  /\ audioBuffer' = other.audioBuffer
  /\ framesSent' = other.framesSent
  /\ lastIndex' = other.lastIndex
  /\ audioGen' = other.audioGen
  /\ yielded' = other.yielded
  /\ lastReply' = other.lastReply
  /\ UNCHANGED <<registry, rag, connections, probe>>

\* the event loop turns to the other handler: every field the constructor
\* sets on `this`, the socket and the state of the handler's pending calls
\* are the handler's own; ragService and WebSocketManager.connections are
\* the same for both
Switch ==
  /\ other # NoSession
  /\ current' = 3 - current
  /\ other' = Snapshot
  /\ wsOpen' = other.wsOpen
  /\ isClosed' = other.isClosed
  /\ speakerMap' = other.speakerMap
  /\ speakerCount' = other.speakerCount
  /\ conversationHistory' = other.conversationHistory
  /\ conversationSummary' = other.conversationSummary
  /\ lastFinalSpeaker' = other.lastFinalSpeaker
  /\ lastFinalTranscript' = other.lastFinalTranscript
  /\ inquirerSpeaker' = other.inquirerSpeaker
  /\ responderSpeaker' = other.responderSpeaker
  /\ inflight' = other.inflight
  /\ sent' = other.sent
  /\ events' = other.events
  /\ calls' = other.calls
  /\ rawCount' = other.rawCount
  /\ failures' = other.failures
  /\ phase' = other.phase
  /\ streamError' = other.streamError
  /\ ragSummary' = other.ragSummary
  /\ listeners' = other.listeners
  /\ audioBuffer' = other.audioBuffer
  /\ framesSent' = other.framesSent
  /\ lastIndex' = other.lastIndex
  /\ audioGen' = other.audioGen
  /\ yielded' = other.yielded
  /\ lastReply' = other.lastReply
  /\ UNCHANGED <<rag, connections, probe>>

\* two connections have been accepted; ragService has no vectors
PairInit ==
  /\ Fresh
  /\ rag = [isInitialized |-> TRUE, salesVectors |-> <<>>]
  /\ current = 1
  /\ connections = {Handler(1), Handler(2)}
  /\ probe = NoProbe
  /\ other = Snapshot

\* each recognizer delivers the first MaxPairEvents results of the scripted
\* session
PairEvent ==
  /\ rawCount < MaxPairEvents
  /\ StreamEvent(Scenario[rawCount + 1])

\* the providers answer: the summarizer with its text, the evaluation with
\* an accepted verdict that asks for retrieval, the generation with a full
\* card
PairSummaryStep ==
  \E i \in DOMAIN inflight : SummaryReturns(i, <<SummaryReply(SummaryCalls)>>)

PairEvaluationStep ==
  \E i \in DOMAIN inflight : EvaluationReturns(i, <<EvalObject("yes", "yes")>>)

FullCard ==
  CHOOSE reply \in GenReplies : IsJsonObject(reply) /\ JsonField(reply, "title") # JUndef

PairGenerationStep == \E i \in DOMAIN inflight : GenerationReturns(i, <<FullCard>>)

PairNext ==
  \/ initialize
  \/ StreamOpens
  \/ StreamEnds
  \/ PairEvent
  \/ PairSummaryStep
  \/ PairEvaluationStep
  \/ PairGenerationStep
  \/ AudioFrame
  \/ AudioGeneratorStep
  \/ SocketClose
  \/ Switch

PairSpec == PairInit /\ [][PairNext]_vars

\* ------------------------------------------------------- a long session
\* the recognizer delivers eight final results of two alternating speakers,
\* more than the prompts and the llm_eval event quote
LongScenario ==
  [k \in 1..8 |->
     [shape |-> "result", text |-> <<"one", "two", "three", "four", "five", "six", "seven", "eight">>[k],
      isPartial |-> FALSE, speaker |-> TagName(2 - (k % 2))]]

LongEvent ==
  /\ rawCount < Len(LongScenario)
  /\ StreamEvent(LongScenario[rawCount + 1])

\* the evaluation answers an accepted verdict "yes" or "no" without retrieval,
\* or fails
LongEvaluationStep ==
  \E i \in DOMAIN inflight :
    \E reply \in Option({EvalObject("yes", "no"), EvalObject("no", "no")}) :
      EvaluationReturns(i, reply)

LongNext ==
  \/ initialize
  \/ OverviewStep
  \/ DigestStep
  \/ StreamOpens
  \/ StreamEnds
  \/ LongEvent
  \/ PairSummaryStep
  \/ LongEvaluationStep
  \/ PairGenerationStep
  \/ AudioGeneratorStep
  \/ SocketClose

LongSpec == Init /\ [][LongNext]_vars

\* ------------------------------------------------ one turn, any card text
\* the recognizer delivers the first MaxPairEvents results of the scripted
\* session; the generation model answers the one evaluation with any card
\* text or with prose, or fails
CardGenerationStep ==
  \E i \in DOMAIN inflight :
    \E reply \in Option({CardText(t, h, p) : t \in CardStrings("quote"),
                                             h \in CardStrings("Handle objection"),
                                             p \in CardPoints} \cup {<<TXT>>}) :
      GenerationReturns(i, reply)

CardNext ==
  \/ initialize
  \/ OverviewStep
  \/ DigestStep
  \/ StreamOpens
  \/ StreamEnds
  \/ PairEvent
  \/ PairSummaryStep
  \/ LongEvaluationStep
  \/ CardGenerationStep
  \/ AudioGeneratorStep
  \/ SocketClose

CardSpec == Init /\ [][CardNext]_vars

\* ------------------------------------------------- vocabulary of the claims
\* the label a raw tag resolves to in this session
Resolve(tag) == IF tag = NULL THEN NULL ELSE speakerMap[tag]

\* stage of the frame that handles event `at`, "none" when no frame does
StageOf(frames, at) ==
  IF \E i \in DOMAIN frames : frames[i].at = at
  THEN frames[CHOOSE i \in DOMAIN frames : frames[i].at = at].stage
  ELSE "none"

\* index of the final event immediately preceding event `at`, 0 when none
PrevFinal(at) ==
  LET before == {j \in 1..(at - 1) : events[j].isFinal}
  IN  IF before = {} THEN 0 ELSE CHOOSE j \in before : \A m \in before : m <= j

\* index of the last final event handled, 0 when none
LastFinalEvent == PrevFinal(Len(events) + 1)

CallsOf(svc) == {c \in DOMAIN calls : calls[c].svc = svc}
CallsAt(log, svc, at) == {c \in DOMAIN log : log[c].svc = svc /\ log[c].at = at}

SentOf(type) == {j \in DOMAIN sent : sent[j].type = type}

InStage(stages) == {i \in DOMAIN inflight : inflight[i].stage \in stages}

\* ------------------------------------------------------------------ C1
\* the turn-boundary condition for event `at`, on the roles as bound now
TurnBoundary(at) ==
  /\ events[at].isFinal
  /\ PrevFinal(at) # 0
  /\ Resolve(events[PrevFinal(at)].awsSpeaker) = inquirerSpeaker
  /\ Resolve(events[at].awsSpeaker) = responderSpeaker

\* C1: an evaluation call is made while handling an event exactly when the
\* event is final, a final event precedes it, the immediately preceding final
\* event's label equals inquirerSpeaker and the event's own label equals
\* responderSpeaker, on the roles as bound in the step that runs the trigger
\* check; an evaluation call is made in no other step, so never for a partial
\* event.
C1_TriggerIffTurnBoundary ==
  [][\A at \in 1..Len(events') :
       LET checked == StageOf(inflight, at) = "summary" /\ StageOf(inflight', at) # "summary"
           started == CallsAt(calls', "eval", at) # CallsAt(calls, "eval", at)
       IN  /\ started => checked /\ events[at].isFinal
           /\ checked => (started <=> TurnBoundary(at)')]_vars

\* an evaluation was started in a session that also handled a partial event
C1_Witness ==
  /\ CallsOf("eval") # {}
  /\ \E at \in DOMAIN events : ~events[at].isFinal

\* ------------------------------------------------------------------ C2
\* tagged final events whose identifySpeakerRoles has run
TaggedFinals ==
  {i \in DOMAIN events :
     events[i].isFinal /\ events[i].awsSpeaker # NULL /\ StageOf(inflight, i) # "summary"}

FirstTagged == CHOOSE i \in TaggedFinals : \A j \in TaggedFinals : i <= j

\* later tagged final events whose tag differs from the first tag
Differing ==
  {i \in TaggedFinals : events[i].awsSpeaker # events[FirstTagged].awsSpeaker}

FirstDiffering == CHOOSE i \in Differing : \A j \in Differing : i <= j

RolesFollowFirstTwoTags ==
  (TaggedFinals # {} /\ Differing # {}) =>
    /\ inquirerSpeaker = Resolve(events[FirstTagged].awsSpeaker)
    /\ responderSpeaker = Resolve(events[FirstDiffering].awsSpeaker)

BothBound == inquirerSpeaker # NULL /\ responderSpeaker # NULL

\* C2: once the final events handled carry two distinct raw tags,
\* inquirerSpeaker is the label of the first tag and responderSpeaker the label
\* of the first later final event with another tag; and a step taken with both
\* roles bound changes neither, whatever it handles (a third speaker, the
\* responder speaking before the inquirer, an untagged event).
C2_RolesBoundOnce ==
  /\ []RolesFollowFirstTwoTags
  /\ [][BothBound => UNCHANGED roles]_vars

\* both roles are bound and a later final event of a third speaker has been
\* through identifySpeakerRoles
C2_Witness ==
  /\ BothBound
  /\ inflight = <<>>
  /\ \E i \in TaggedFinals : i > FirstDiffering /\ Resolve(events[i].awsSpeaker) \notin {inquirerSpeaker, responderSpeaker}

\* ------------------------------------------------------------------ C3
\* the evaluation calls made so far, as <<event, trigger utterance>>
EvaluationsStarted == [c \in 1..Cardinality(CallsOf("eval")) |->
  LET k == CHOOSE k \in CallsOf("eval") : Cardinality({m \in CallsOf("eval") : m <= k}) = c
  IN  <<calls[k].at, calls[k].text>>]

IsPrefix(s, t) == Len(s) <= Len(t) /\ s = SubSeq(t, 1, Len(s))

ScenarioRoles ==
  /\ inquirerSpeaker = (IF Len(events) >= 1 /\ StageOf(inflight, 1) # "summary"
                        THEN "Speaker 1" ELSE NULL)
  /\ responderSpeaker = (IF Len(events) >= 3 /\ StageOf(inflight, 3) # "summary"
                         THEN "Speaker 2" ELSE NULL)

ScenarioOver == Len(events) = Len(Scenario) /\ inflight = <<>>

\* C3 as stated: in the scripted session the roles are bound at the first A
\* and the first B, and the only evaluation of the run is the one started by
\* the last B, on the utterance "price too high".
C3_OneEvaluation ==
  /\ ScenarioRoles
  /\ IsPrefix(EvaluationsStarted, << <<5, "price too high">> >>)
  /\ ScenarioOver => Len(EvaluationsStarted) = 1

\* C3 amended: in the scripted session the roles are bound at the first A and
\* the first B, and exactly two evaluations are started: one by the first B,
\* on the utterance "hi", and one by the last B, on "price too high".
C3_TwoEvaluations ==
  /\ ScenarioRoles
  /\ IsPrefix(EvaluationsStarted, << <<3, "hi">>, <<5, "price too high">> >>)
  /\ ScenarioOver => Len(EvaluationsStarted) = 2

\* the scripted session has run to its end
C3_Witness == ScenarioOver /\ Len(EvaluationsStarted) = 2

C6_MutationsSequential ==
  /\ Len(inflight) <= 1
  /\ Len(conversationHistory) = Cardinality({j \in DOMAIN events : events[j].isFinal})
  /\ LET at == IF inflight = <<>> THEN Len(events) + 1 ELSE inflight[1].at
         prev == PrevFinal(at)
     IN  /\ inflight # <<>> => at = Len(events) /\ events[at].isFinal
         /\ lastFinalSpeaker = (IF prev = 0 THEN NULL ELSE Resolve(events[prev].awsSpeaker))
         /\ lastFinalTranscript = (IF prev = 0 THEN NULL ELSE events[prev].transcript)

\* the trigger check of a third final event is about to run after two
\* earlier final events
C6_Witness ==
  /\ InStage({"summary"}) # {}
  /\ Cardinality({j \in DOMAIN events : events[j].isFinal}) >= 3

\* ------------------------------------------------------------------ C7
\* C7: at most one performLLMEvaluation run (its evaluation, retrieval or
\* generation call pending) is in flight.
C7_OneEvaluationInFlight == Cardinality(InStage({"eval", "rag", "gen"})) <= 1

\* a generation call is pending for an evaluation
C7_Witness == InStage({"gen"}) # {} /\ Len(events) >= 2

\* ------------------------------------------------------------------ C8
IsVerdictYes(msg) ==
  msg.type = "llm_eval" /\ msg.llm.ready_for_suggestions = JStr("yes")

\* C8: every suggestions event follows an llm_eval event with verdict "yes"
\* of the same trigger (no other llm_eval or suggestions event lies between
\* the two), and a retrieval or generation call is pending only for an
\* evaluation whose stage-1 result is "yes"; so a verdict "no", parsed or
\* fallback, leads to neither.
C8_StageTwoOnlyAfterYes ==
  /\ \A j \in SentOf("suggestions") :
       \E k \in 1..(j - 1) :
         /\ IsVerdictYes(sent[k])
         /\ \A m \in (k + 1)..(j - 1) : sent[m].type \notin {"llm_eval", "suggestions"}
  /\ \A i \in InStage({"rag", "gen"}) : inflight[i].evalResult.ready_for_suggestions = JStr("yes")
  /\ Cardinality(CallsOf("gen")) <= Cardinality(CallsOf("eval"))
  /\ wsOpen => Cardinality(CallsOf("gen")) + Cardinality(InStage({"rag"}))
                 = Cardinality({k \in DOMAIN sent : IsVerdictYes(sent[k])})

\* an evaluation with verdict "no" that asks for retrieval has returned and
\* its handler has ended: the llm_eval event is the last one written
C8_Witness ==
  /\ inflight = <<>>
  /\ \E k \in SentOf("llm_eval") :
       /\ sent[k].llm.ready_for_suggestions = JStr("no")
       /\ sent[k].llm.is_rag_required = JStr("yes")
       /\ k = Len(sent)

\* ------------------------------------------------------------------ C9
\* evaluations whose stage-1 call has returned
EvaluationsReturned == Cardinality(CallsOf("eval")) - Cardinality(InStage({"eval"}))

\* C9: there is never more than one llm_eval event per evaluation whose
\* stage-1 call has returned, and while the socket is open there is exactly
\* one for each of them, whatever the verdict.
C9_OneEvalEventEach ==
  /\ Cardinality(SentOf("llm_eval")) <= EvaluationsReturned
  /\ wsOpen => Cardinality(SentOf("llm_eval")) = EvaluationsReturned

\* the socket is open and the llm_eval event of a failed evaluation call was
\* written
C9_Witness ==
  /\ wsOpen
  /\ \E k \in SentOf("llm_eval") :
       sent[k].llm.ready_for_suggestions = JStr("no") /\ sent[k].llm.user_context = JStr("LLM error")

\* ------------------------------------------------------------------ C10
\* evaluations with verdict "yes" whose stage 2 has returned (socket open)
StageTwoReturned ==
  Cardinality({k \in DOMAIN sent : IsVerdictYes(sent[k])}) - Cardinality(InStage({"rag", "gen"}))

\* C10: every suggestions event carries exactly one card; there is never
\* more than one per evaluation with verdict "yes", and while the socket is
\* open there is exactly one for each such evaluation whose stage 2 has
\* returned, whether the generation or the retrieval failed or not.
C10_OneCardPerYes ==
  /\ \A j \in SentOf("suggestions") : Len(sent[j].suggestions) = 1
  /\ Cardinality(SentOf("suggestions")) <= Cardinality({k \in DOMAIN sent : IsVerdictYes(sent[k])})
  /\ wsOpen => Cardinality(SentOf("suggestions")) = StageTwoReturned

\* the socket is open and the fallback card of a failed generation call was
\* written
C10_Witness ==
  /\ wsOpen
  /\ \E j \in SentOf("suggestions") : sent[j].suggestions[1].points = JArr(<<"LLM error">>)

\* ------------------------------------------------------------------ C11
\* retrievals of the turns (the one of the digest, at 0, left aside)
TurnRetrievals == {c \in CallsOf("retrieve") : calls[c].at > 0}

IsVerdictYesWithRag(msg) ==
  IsVerdictYes(msg) /\ msg.llm.is_rag_required = JStr("yes")

\* C11: a retrieval is invoked for a turn exactly when stage 1 returned
\* ready_for_suggestions = "yes" and is_rag_required = "yes", in the step in
\* which stage 1 returns, with the trigger utterance (the text of the final
\* event before the triggering one) as query, at most once per turn and
\* before the turn's generation call; the embedding provider is called for a
\* turn only inside such a retrieval; the retrieved context handed to the
\* generation holds 3 chunks, and is empty when is_rag_required is not "yes".
C11_RetrievalIffRagRequired ==
  /\ [](/\ \A c \in TurnRetrievals :
            /\ PrevFinal(calls[c].at) # 0
            /\ calls[c].text = events[PrevFinal(calls[c].at)].transcript
            /\ \A d \in TurnRetrievals : calls[d].at = calls[c].at => d = c
            /\ \A g \in CallsOf("gen") : calls[g].at = calls[c].at => c < g
        /\ \A e \in CallsOf("embed") :
             calls[e].at > 0 =>
               e - 1 \in TurnRetrievals /\ calls[e - 1].at = calls[e].at
                 /\ calls[e - 1].text = calls[e].text
        /\ \A i \in InStage({"rag", "gen"}) :
             /\ CallsAt(calls, "retrieve", inflight[i].at) # {}
                  <=> inflight[i].evalResult.is_rag_required = JStr("yes")
             /\ inflight[i].ragContext # <<>> =>
                  /\ inflight[i].evalResult.is_rag_required = JStr("yes")
                  /\ Len(inflight[i].ragContext) = 3
        /\ wsOpen => Cardinality(TurnRetrievals)
                       = Cardinality({k \in DOMAIN sent : IsVerdictYesWithRag(sent[k])}))
  /\ [][\A at \in 1..Len(events) :
         CallsAt(calls', "retrieve", at) # CallsAt(calls, "retrieve", at)
           => StageOf(inflight, at) = "eval" /\ StageOf(inflight', at) \in {"rag", "gen"}]_vars

\* a generation call is pending with the three chunks its retrieval returned
C11_Witness ==
  \E i \in InStage({"gen"}) :
    /\ Len(inflight[i].ragContext) = 3
    /\ CallsAt(calls, "embed", inflight[i].at) # {}

\* ------------------------------------------------------------------ C12
\* some stretch of the text is a JSON object
ContainsJsonObject(s) ==
  \E i \in 1..Len(s) : \E j \in i..Len(s) : IsJsonObject(SubSeq(s, i, j))

\* the evaluation call has just returned, failed or with a text that holds no
\* JSON object
EvaluationUnparsed ==
  /\ lastReply.svc = "eval"
  /\ lastReply.reply # <<>> => ~ContainsJsonObject(lastReply.reply[1])

\* C12: when the evaluation call fails, or its text holds no parseable JSON
\* object, the evaluation ends without an exception: the stream loop goes
\* on, the handler of the event has returned without a stage 2, and (socket
\* open) the llm_eval event written for it carries ready_for_suggestions =
\* "no", is_rag_required = "no" and the user_context "Could not parse LLM
\* response." (for a failed call, the error text).
C12_FallbackVerdictEmitted ==
  EvaluationUnparsed =>
    /\ phase = "streaming"
    /\ inflight = <<>>
    /\ SentOf("error") = {}
    /\ wsOpen =>
         /\ sent # <<>>
         /\ sent[Len(sent)].type = "llm_eval"
         /\ sent[Len(sent)].llm.ready_for_suggestions = JStr("no")
         /\ sent[Len(sent)].llm.is_rag_required = JStr("no")
         /\ sent[Len(sent)].llm.user_context =
              (IF lastReply.reply = <<>> THEN JStr("LLM error")
               ELSE JStr("Could not parse LLM response."))

\* the evaluation model answered with prose in braces and the fallback
\* verdict was written
C12_Witness ==
  /\ lastReply.svc = "eval"
  /\ lastReply.reply = << <<LB, TXT, RB>> >>
  /\ wsOpen
  /\ sent # <<>>
  /\ sent[Len(sent)].type = "llm_eval"

\* ------------------------------------------------------------------ C13
\* the first balanced top-level {...} of a text: from its first "{" to the
\* "}" that closes it; <<>> when there is none
FirstBalanced(s) ==
  LET opens == {i \in 1..Len(s) : s[i].k = "{"}
      start == CHOOSE i \in opens : \A j \in opens : i <= j
      ends == {i \in start..Len(s) : s[i].k = "}" /\ DepthFrom(s, start, i) = 0}
  IN  IF opens = {} \/ ends = {} THEN <<>>
      ELSE SubSeq(s, start, CHOOSE i \in ends : \A j \in ends : i <= j)

\* the evaluation call has just returned a text whose first balanced object
\* is valid JSON and is followed by further text
EvaluationObjectThenText ==
  /\ lastReply.svc = "eval"
  /\ lastReply.reply # <<>>
  /\ IsJsonObject(FirstBalanced(lastReply.reply[1]))
  /\ Len(FirstBalanced(lastReply.reply[1])) < Len(lastReply.reply[1])

\* C13 as stated: when the text of the evaluation model holds a valid JSON
\* object followed by further text, the llm_eval event written for it
\* (socket open) carries the members of that first object.
C13_FirstBalancedObject ==
  (EvaluationObjectThenText /\ wsOpen) =>
    /\ sent # <<>>
    /\ sent[Len(sent)].type = "llm_eval"
    /\ sent[Len(sent)].llm.ready_for_suggestions
         = JsonField(FirstBalanced(lastReply.reply[1]), "ready_for_suggestions")
    /\ sent[Len(sent)].llm.is_rag_required
         = JsonField(FirstBalanced(lastReply.reply[1]), "is_rag_required")
    /\ sent[Len(sent)].llm.user_context
         = JsonField(FirstBalanced(lastReply.reply[1]), "user_context")

\* ------------------------------------------------------------------ C14
\* the generation call has just returned a text and its card was written
GenerationAnswered ==
  /\ lastReply.svc = "gen"
  /\ lastReply.reply # <<>>
  /\ wsOpen

\* the trigger utterance of the evaluation that has just ended: the text of
\* the final event before the last one
LastTrigger == events[PrevFinal(LastFinalEvent)].transcript

\* C14: for every text of the generation model, the card written has a
\* trigger, a title and points, none of them null or absent; when the text
\* holds a JSON object, each member the object lacks is defaulted on its own:
\* trigger to the trigger utterance, title to "Suggestion Card", points to a
\* sequence of one fallback string; when the text holds no JSON object the
\* card is the fallback card with points = ["Could not parse LLM response"].
C14_CardFieldsDefaulted ==
  GenerationAnswered =>
    LET text == lastReply.reply[1]
        obj == FirstBalanced(text)
        msg == sent[Len(sent)]
        card == msg.suggestions[1]
    IN  /\ msg.type = "suggestions"
        /\ card.trigger # JUndef /\ card.title # JUndef /\ card.points # JUndef
        /\ IsJsonObject(obj) =>
             /\ JsonField(obj, "trigger") = JUndef => card.trigger = JStr(LastTrigger)
             /\ JsonField(obj, "title") = JUndef => card.title = JStr("Suggestion Card")
             /\ JsonField(obj, "points") = JUndef =>
                  card.points.type = "array" /\ Len(card.points.items) = 1
        /\ ~ContainsJsonObject(text) =>
             card = [trigger |-> JStr(LastTrigger), title |-> JStr("Suggestion Card"),
                     points |-> JArr(<<"Could not parse LLM response">>)]

\* the card of an object that has a title only was written: the title is the
\* object's, trigger and points are the defaults
C14_Witness ==
  /\ GenerationAnswered
  /\ sent[Len(sent)].suggestions[1] =
       [trigger |-> JStr(LastTrigger), title |-> JStr("Handle objection"),
        points |-> JArr(<<"No points available">>)]

\* ------------------------------------------------------------------ C15
\* C15: in the step in which the summarizer call of a final event returns
\* with a failure, the rolling summary keeps its value, the stream loop is
\* not left and no error event is written, and the rest of the handling is
\* that of a call that answered with the unchanged summary: the summary
\* event carries it, the roles are bound as identifySpeakerRoles binds them,
\* an evaluation starts exactly at a turn boundary, and without one
\* lastFinalSpeaker and lastFinalTranscript take the event's label and text
\* and the handler returns.
C15_SummaryFailureKeepsSummary ==
  [][\A at \in 1..Len(events) :
       (/\ StageOf(inflight, at) = "summary"
        /\ StageOf(inflight', at) # "summary"
        /\ failures' = failures + 1)
       => LET label == Resolve(events[at].awsSpeaker)
              started == CallsAt(calls', "eval", at) # {}
          IN  /\ conversationSummary' = conversationSummary
              /\ phase = "streaming" /\ phase' = "streaming"
              /\ sent' = sendMessage(sent, wsOpen, SummaryMsg(conversationSummary))
              /\ inquirerSpeaker' = (IF Truthy(inquirerSpeaker) THEN inquirerSpeaker ELSE label)
              /\ responderSpeaker' =
                   (IF Truthy(inquirerSpeaker) /\ ~Truthy(responderSpeaker) /\ label # inquirerSpeaker
                    THEN label ELSE responderSpeaker)
              /\ started <=> TurnBoundary(at)'
              /\ started => StageOf(inflight', at) = "eval" /\ UNCHANGED lastFinal
              /\ ~started =>
                   /\ inflight' = <<>>
                   /\ lastFinalSpeaker' = label
                   /\ lastFinalTranscript' = events[at].transcript]_vars

\* the summarizer failed on a later final event: the summary is still the
\* one an earlier call answered with, and the event has started an evaluation
C15_Witness ==
  /\ lastReply.svc = "summary"
  /\ lastReply.reply = <<>>
  /\ conversationSummary = SummaryReply(1)
  /\ InStage({"eval"}) # {}

\* ------------------------------------------------------------------ C16
\* C16: a step in which a summary, evaluation, retrieval or generation call
\* of a final event fails leaves the stream loop running and writes no error
\* event; an error event is written only in the step in which the
\* recognition stream itself throws; and whatever has failed before, a
\* pending call of the handler can return and, once the handler has returned,
\* the loop takes the next recognizer event.
C16_FailuresStayInPipeline ==
  /\ [][(failures' # failures /\ phase = "streaming")
          => phase' = "streaming" /\ SentOf("error")' = SentOf("error")]_vars
  /\ [][SentOf("error")' # SentOf("error")
          => streamError.code = NULL /\ streamError'.code # NULL /\ failures' = failures]_vars
  /\ []((phase = "streaming" /\ inflight = <<>> /\ rawCount < MaxEvents)
          => ENABLED RecognizerEvent)
  /\ [](inflight # <<>>
          => phase = "streaming"
             /\ ENABLED (SummaryStep \/ EvaluationStep \/ RetrievalStep \/ GenerationStep))

\* the evaluation call failed and a later recognizer event was handled
C16_Witness ==
  \E k \in SentOf("llm_eval") :
    /\ sent[k].llm.user_context = JStr("LLM error")
    /\ \E j \in SentOf("transcript") : j > k

\* ------------------------------------------------------------------ C17
\* C17 as stated: whenever the socket has closed, eventually the closed flag
\* is set and the audio generator, as long as the recognition request
\* consumes it, has yielded its final empty chunk and ended.
C17_CloseEndsAudioGenerator ==
  (~wsOpen) ~> (isClosed /\ (audioGen = "ended" \/ phase = "returned"))

\* ------------------------------------------------------------------ C18
\* C18 as stated: whenever the socket has closed, the handler is eventually
\* removed from connections.
C18_RemovedAfterClose == (~wsOpen) ~> (Self \notin connections)

\* ------------------------------------------------------------------ C19
\* the established stream has ended with a premature close after delivering
\* partial events only
PrematureAfterPartials ==
  /\ streamError = StreamError(PREMATURE_CLOSE, TRUE)
  /\ events # <<>>
  /\ \A at \in DOMAIN events : ~events[at].isFinal

\* C19 as stated: when the recognition stream has ended with a premature
\* close after partial events only, no error event is written, and once the
\* socket has closed the handler is no longer in connections.
C19_PrematureCloseStillCleansUp ==
  PrematureAfterPartials =>
    /\ SentOf("error") = {}
    /\ ~wsOpen => Self \notin connections

\* ------------------------------------------------------------------ C20
\* the recognition request was rejected, with another error than a
\* premature close
EstablishFailed ==
  /\ streamError.code \notin {NULL, PREMATURE_CLOSE}
  /\ ~streamError.established

\* C20: the session sends at most one recognition request; when the request
\* is rejected with another error than a premature close, initialize() has
\* returned, no recognizer event is handled and no call is pending, nothing
\* but the error event is ever written, and with the socket open exactly one
\* error event, carrying the error's message, has been written.
C20_EstablishFailureIsFatal ==
  /\ Cardinality(CallsOf("transcribe")) <= 1
  /\ EstablishFailed =>
       /\ phase = "returned"
       /\ rawCount = 0 /\ events = <<>> /\ inflight = <<>>
       /\ Cardinality(CallsOf("transcribe")) = 1
       /\ CallsOf("summary") \cup CallsOf("eval") \cup CallsOf("gen") = {}
       /\ Len(sent) <= 1
       /\ \A j \in DOMAIN sent : sent[j] = ErrorMsg(streamError.code)
       /\ wsOpen => Len(sent) = 1

\* the request was rejected and the error event was written to the open
\* socket
C20_Witness ==
  /\ EstablishFailed
  /\ wsOpen
  /\ Len(sent) = 1

\* ------------------------------------------------------------------ C21
\* a step in which a provider call of a running handler returns
CallReturns == inflight' # inflight /\ events' = events

\* C21: a step that starts with the socket not open writes nothing, and when
\* a provider call returns on the closed socket the handler still moves on
\* (its frame advances or ends), no error is recorded and initialize() stays
\* in the loop it was in.
C21_NoWriteToClosedSocket ==
  [][ ~wsOpen =>
        /\ sent' = sent
        /\ CallReturns =>
             /\ phase' = phase
             /\ streamError' = streamError
             /\ \/ Len(inflight') < Len(inflight)
                \/ \E i \in DOMAIN inflight : inflight'[i].stage # inflight[i].stage ]_vars

\* the card of an accepted evaluation came back after the socket had closed:
\* the llm_eval event is the last one written and the loop is still running
C21_Witness ==
  /\ ~wsOpen
  /\ phase = "streaming"
  /\ lastReply.svc = "gen"
  /\ lastReply.reply # <<>>
  /\ inflight = <<>>
  /\ sent # <<>>
  /\ sent[Len(sent)].type = "llm_eval"

\* ------------------------------------------------------------------ C22
\* the client has a frame to send to a session whose message listener is
\* registered
FrameDue == "message" \in listeners /\ wsOpen /\ framesSent < MaxFrames

\* C22: whenever the message listener is registered and the client sends a
\* frame, the frame can be taken at once, whatever calls of the turn pipeline
\* are pending; the step appends the frame to the end of the audio buffer and
\* touches neither the pending handlers nor the provider calls.
C22_FrameAppendedInEveryState ==
  /\ [](FrameDue => ENABLED AudioFrame)
  /\ [][ (framesSent' # framesSent /\ "message" \in listeners) =>
           /\ audioBuffer' = Append(audioBuffer, framesSent')
           /\ inflight' = inflight
           /\ calls' = calls
           /\ sent' = sent ]_vars

\* a generation call (after an evaluation and a retrieval) is pending and a
\* frame that arrives now is appended
C22_Witness ==
  /\ FrameDue
  /\ InStage({"gen"}) # {}
  /\ CallsOf("embed") # {}
  /\ ENABLED (AudioFrame /\ audioBuffer' = Append(audioBuffer, framesSent + 1))

\* ------------------------------------------------------------------ C23
\* C23: the audio buffer only grows at its end; what the generator has
\* yielded is the first lastIndex chunks of the buffer, each once and in the
\* order they were appended, followed by the empty chunk exactly when the
\* generator has ended; the generator ends only with every buffered chunk
\* yielded, and after it has ended nothing is appended or yielded.
C23_BufferConsumedInOrder ==
  /\ [](yielded = SubSeq(audioBuffer, 1, lastIndex) \o
                    (IF audioGen = "ended" THEN <<EndChunk>> ELSE <<>>))
  /\ [](\A j \in DOMAIN audioBuffer : audioBuffer[j] # EndChunk)
  /\ [](audioGen = "ended" => lastIndex = Len(audioBuffer))
  /\ [][ /\ IsPrefix(audioBuffer, audioBuffer')
         /\ IsPrefix(yielded, yielded')
         /\ Len(yielded') <= Len(yielded) + 1
         /\ audioGen = "ended" => yielded' = yielded /\ audioBuffer' = audioBuffer ]_vars

\* the listener has buffered every frame of the burst and the generator has
\* yielded them in order and then the empty chunk
C23_Witness ==
  /\ audioGen = "ended"
  /\ Len(audioBuffer) = MaxBurst
  /\ yielded = audioBuffer \o <<EndChunk>>

\* ------------------------------------------------------------------ C25
\* the events, partial or final, that carry raw tag t
EventsOf(t) == {j \in DOMAIN events : events[j].awsSpeaker = t}

FirstEventOf(t) == CHOOSE j \in EventsOf(t) : \A m \in EventsOf(t) : j <= m

\* t is the n-th distinct tag of the session for n = OrdinalOf(t)
OrdinalOf(t) ==
  1 + Cardinality({u \in Tags : EventsOf(u) # {} /\ FirstEventOf(u) < FirstEventOf(t)})

\* C25: a raw tag that has occurred in an event, partial or final, is mapped
\* to "Speaker n" where the tag is the n-th distinct tag of the session, and
\* a tag that has not occurred is not in the map; distinct tags have distinct
\* labels; speakerCount is one more than the number of tags seen, so untagged
\* events use up no ordinal; the transcript event written for an event
\* carries the label of its tag, null for an untagged event; and a label
\* once given never changes.
C25_LabelsByFirstAppearance ==
  /\ [](\A t \in Tags :
          IF EventsOf(t) = {} THEN speakerMap[t] = NULL
          ELSE speakerMap[t] = SpeakerName(OrdinalOf(t)))
  /\ [](\A t, u \in Tags : (t # u /\ speakerMap[t] # NULL) => speakerMap[t] # speakerMap[u])
  /\ [](speakerCount = 1 + Cardinality({t \in Tags : EventsOf(t) # {}}))
  /\ [](\A j \in DOMAIN sent :
          sent[j].type = "transcript" =>
            LET k == Cardinality({m \in 1..j : sent[m].type = "transcript"})
            IN  sent[j].speaker = Resolve(events[k].awsSpeaker))
  /\ [][\A t \in Tags : speakerMap[t] # NULL => speakerMap'[t] = speakerMap[t]]_vars

\* a partial event of the first tag, an untagged event and an event of a
\* second tag: the second tag is "Speaker 2" and the untagged transcript
\* carries no label
C25_Witness ==
  /\ Len(events) = 3
  /\ ~events[1].isFinal /\ events[1].awsSpeaker = TagName(1)
  /\ events[2].awsSpeaker = NULL
  /\ events[3].awsSpeaker = TagName(2)
  /\ speakerMap[TagName(1)] = "Speaker 1"
  /\ speakerMap[TagName(2)] = "Speaker 2"
  /\ Cardinality(SentOf("transcript")) = 3
  /\ \E j \in SentOf("transcript") : sent[j].speaker = NULL

\* ------------------------------------------------------------------ C26
\* the step handles a partial event
PartialHandled == Len(events') = Len(events) + 1 /\ ~events'[Len(events')].isFinal

\* C26: the step that handles a partial event leaves the history, the
\* summary, the roles and lastFinalSpeaker/lastFinalTranscript unchanged,
\* makes no provider call and suspends no handler; it writes one transcript
\* event (isFinal false) when the socket is open and nothing otherwise, and
\* the label registry either stays as it is or gets the event's tag as one
\* new entry.
C26_PartialOnlyTranscript ==
  [][ PartialHandled =>
        LET e == events'[Len(events')]
        IN  /\ UNCHANGED <<conversationHistory, conversationSummary, roles, lastFinal>>
            /\ UNCHANGED <<calls, inflight, failures, lifecycle, audio, socket>>
            /\ sent' = IF wsOpen
                       THEN Append(sent, TranscriptMsg(e.transcript, FALSE,
                                     IF e.awsSpeaker = NULL THEN NULL
                                     ELSE speakerMap'[e.awsSpeaker]))
                       ELSE sent
            /\ \/ UNCHANGED registry
               \/ /\ e.awsSpeaker # NULL
                  /\ speakerMap[e.awsSpeaker] = NULL
                  /\ speakerMap' = [speakerMap EXCEPT ![e.awsSpeaker] = SpeakerName(speakerCount)]
                  /\ speakerCount' = speakerCount + 1 ]_vars

\* a tagged partial event was handled between two final events: it got the
\* second label and one transcript event, and the history has the two finals
C26_Witness ==
  /\ Len(events) = 3
  /\ events[1].isFinal /\ ~events[2].isFinal /\ events[3].isFinal
  /\ events[2].awsSpeaker = TagName(2)
  /\ speakerMap[TagName(2)] = "Speaker 2"
  /\ Len(conversationHistory) = 2
  /\ Cardinality(SentOf("transcript")) = 3
  /\ Cardinality(CallsOf("summary")) = 2

\* ------------------------------------------------------------------ C27
\* raw event r has no TranscriptEvent, no results, no first alternative or
\* an empty text
Unusable(r) == r.shape \in {"noTranscriptEvent", "noResults", "noAlternative"} \/ r.text = ""

\* C27: in the step that takes raw event r from the stream, an r without
\* TranscriptEvent, without results, without first alternative or with an
\* empty text is normalized to null, and the step writes nothing, handles no
\* event and changes nothing of the session beyond the count of raw events;
\* every other r is normalized to its text, its tag (null when untagged) and
\* isFinal = not IsPartial, and that is the event the session handles.
C27_NormalizedOrDropped ==
  [][ rawCount' # rawCount =>
        LET r == lastReply'.reply[1]
        IN  /\ lastReply'.svc = "event"
            /\ IF Unusable(r)
               THEN /\ processTranscriptionEvent(r) = <<>>
                    /\ UNCHANGED <<sent, events, registry, conversationHistory,
                                   conversationSummary, roles, lastFinal, inflight, calls,
                                   failures, socket, lifecycle, audio>>
               ELSE /\ processTranscriptionEvent(r) =
                         <<[transcript |-> r.text, isFinal |-> ~r.isPartial,
                            awsSpeaker |-> r.speaker]>>
                    /\ events' = Append(events, processTranscriptionEvent(r)[1]) ]_vars

\* after a handled event the recognizer delivered a tagged partial result
\* whose text is empty: it was dropped and its tag got no label
C27_Witness ==
  /\ lastReply.svc = "event"
  /\ lastReply.reply[1].shape = "result"
  /\ lastReply.reply[1].text = ""
  /\ rawCount = 2
  /\ Len(events) = 1
  /\ speakerCount = 1
  /\ Len(sent) = 1

\* ------------------------------------------------------------------ C28
FinalsHandled == {j \in DOMAIN events : events[j].isFinal}

\* the step in which the summarizer call of a final event returns
SummaryAnswered == InStage({"summary"}) # {} /\ inflight' # inflight

\* C28: while the socket is open, the summary events written are as many as
\* the final events whose summarizer call has returned, so one per final
\* event and none for a partial one; a summary event is written only by the
\* step in which a summarizer call returns, on an open socket always, and it
\* carries the rolling summary as that step leaves it: the summarizer's text,
\* or the previous summary when the call failed.
C28_OneSummaryPerFinal ==
  /\ [](wsOpen => Cardinality(SentOf("summary")) =
                    Cardinality(FinalsHandled) - Cardinality(InStage({"summary"})))
  /\ [](Cardinality(SentOf("summary")) <=
          Cardinality(FinalsHandled) - Cardinality(InStage({"summary"})))
  /\ [][ /\ SummaryAnswered =>
              /\ lastReply'.svc = "summary"
              /\ IF wsOpen
                 THEN /\ Len(sent') = Len(sent) + 1
                      /\ IsPrefix(sent, sent')
                      /\ sent'[Len(sent')].type = "summary"
                      /\ sent'[Len(sent')].summary = conversationSummary'
                 ELSE sent' = sent
              /\ conversationSummary' = IF lastReply'.reply = <<>> THEN conversationSummary
                                        ELSE lastReply'.reply[1]
         /\ ~SummaryAnswered =>
              \A j \in DOMAIN sent' : j > Len(sent) => sent'[j].type # "summary" ]_vars

\* the second final event's summarizer call failed on an open socket: the
\* second summary event repeats the summary of the first
C28_Witness ==
  /\ wsOpen
  /\ lastReply.svc = "summary"
  /\ lastReply.reply = <<>>
  /\ Cardinality(FinalsHandled) = 2
  /\ Cardinality(SentOf("summary")) = 2
  /\ conversationSummary # INITIAL_SUMMARY
  /\ \A j \in SentOf("summary") : sent[j].summary = conversationSummary

\* ------------------------------------------------------------------ C29
\* the text of the final event immediately preceding event `at`
PrecedingFinalText(at) == events[PrevFinal(at)].transcript

\* the calls an evaluation makes: stage 1, the retrieval with its embedding,
\* and the generation
EvaluationCalls ==
  {c \in DOMAIN calls : calls[c].svc \in {"eval", "retrieve", "embed", "gen"} /\ calls[c].at > 0}

\* the k-th evaluation call of the session
NthEvaluation(k) ==
  CHOOSE c \in CallsOf("eval") : Cardinality({d \in CallsOf("eval") : d <= c}) = k

\* every call of an evaluation and every llm_eval event carries the text of
\* the final event immediately preceding the triggering event, and while the
\* evaluation is in flight the triggering event is the last event handled
\* and lastFinalTranscript is still that text
TriggerIsPrecedingFinal ==
  /\ \A c \in EvaluationCalls :
       /\ PrevFinal(calls[c].at) # 0
       /\ calls[c].text = PrecedingFinalText(calls[c].at)
  /\ \A j \in SentOf("llm_eval") :
       LET k == Cardinality({m \in 1..j : sent[m].type = "llm_eval"})
       IN  sent[j].llm.trigger = calls[NthEvaluation(k)].text
  /\ \A i \in InStage({"eval", "rag", "gen"}) :
       /\ Len(events) = inflight[i].at
       /\ lastFinalTranscript = PrecedingFinalText(inflight[i].at)
       /\ inflight[i].stage = "gen" => inflight[i].trigger = lastFinalTranscript

\* a step that starts with an evaluation in flight changes neither the
\* summary nor the history, changes lastFinalTranscript only by ending the
\* evaluation, and an llm_eval event it writes reports the summary and the
\* last MAX_HISTORY_ITEMS entries of the history as they are
InFlightReadsStable ==
  InStage({"eval", "rag", "gen"}) # {} =>
    /\ UNCHANGED <<conversationSummary, conversationHistory, events>>
    /\ inflight' # <<>> => UNCHANGED lastFinal
    /\ Len(sent') > Len(sent) /\ sent'[Len(sent')].type = "llm_eval" =>
         /\ sent'[Len(sent')].llm.summary = conversationSummary
         /\ sent'[Len(sent')].llm.history = Last(conversationHistory, MAX_HISTORY_ITEMS)

\* the step starts an evaluation whose preceding final event does not carry
\* a label bound as inquirer
StartedOffInquirer ==
  /\ Cardinality(CallsOf("eval")') > Cardinality(CallsOf("eval"))
  /\ LET a == calls'[Len(calls')].at
     IN  \/ inquirerSpeaker' = NULL
         \/ Resolve(events[PrevFinal(a)].awsSpeaker) # inquirerSpeaker'

\* holds in every run: the trigger text and the stability of what an
\* evaluation in flight reads
TriggerTextAndIsolation == [](TriggerIsPrecedingFinal) /\ [][InFlightReadsStable]_vars

\* C29: for every evaluation, the text given to stage 1, to the retrieval
\* and to the generation (whose card falls back to it) and reported in the
\* llm_eval event is the text of the final event immediately preceding the
\* triggering event, that preceding event carries the label bound as
\* inquirer, and no step taken while the evaluation is in flight changes the
\* trigger, the summary or the history it reads and reports.
C29_TriggerIsInquirersLastFinal ==
  /\ [](TriggerIsPrecedingFinal)
  /\ [][InFlightReadsStable /\ ~StartedOffInquirer]_vars

\* ------------------------------------------------------------------ C30
\* the similarity the embedder's answer gave to a chunk of the corpus
ScoreOf(chunk) ==
  probe.scores[1][CHOOSE i \in DOMAIN rag.salesVectors : rag.salesVectors[i] = chunk]

FieldsOf(n) == IF n = current THEN Snapshot ELSE other

\* what the claim names of handler n: speaker registry, role bindings,
\* history, summary, lastFinalSpeaker/lastFinalTranscript, audio buffer,
\* closed flag, and the events written to its socket
OwnState(n) ==
  LET f == FieldsOf(n)
  IN  <<f.speakerMap, f.speakerCount, f.inquirerSpeaker, f.responderSpeaker,
        f.conversationHistory, f.conversationSummary, f.lastFinalSpeaker,
        f.lastFinalTranscript, f.audioBuffer, f.isClosed, f.sent>>

\* C24: with two sessions interleaved at every suspension point, a step of
\* one handler (a recognizer event, an audio frame, the close of its socket,
\* a provider answer) leaves the other handler's registry, roles, history,
\* summary, lastFinalSpeaker/lastFinalTranscript, audio buffer, closed flag
\* and written events as they are, and the turn of the event loop from one
\* handler to the other changes them for neither.
C24_SessionsIsolated ==
  [][ \A n \in {1, 2} : (current' # current \/ n # current) => OwnState(n)' = OwnState(n) ]_vars

\* both sessions have had their evaluation, the first with its socket open
\* to the end and the second with its socket closed after the first event:
\* the first has its card, the second only its first transcript and summary
C24_Witness ==
  /\ other # NoSession
  /\ FieldsOf(1).rawCount = MaxPairEvents /\ FieldsOf(1).inflight = <<>>
  /\ FieldsOf(2).rawCount = MaxPairEvents /\ FieldsOf(2).inflight = <<>>
  /\ FieldsOf(1).wsOpen
  /\ FieldsOf(1).sent[Len(FieldsOf(1).sent)].type = "suggestions"
  /\ ~FieldsOf(2).wsOpen
  /\ Len(FieldsOf(2).sent) = 2
  /\ Len(FieldsOf(1).audioBuffer) # Len(FieldsOf(2).audioBuffer)

\* ------------------------------------------------------------------ C31
\* place of a chunk in the corpus
PlaceOf(chunk) == CHOOSE i \in DOMAIN rag.salesVectors : rag.salesVectors[i] = chunk

Min(a, b) == IF a < b THEN a ELSE b

ZeroVector == [i \in 1..Dim |-> 0]

\* C32: when cosineSimilarity has returned, the result for a non-zero vector
\* with itself is 1, and the result when either argument is the zero vector
\* is 0; the result is never NaN.
C32_SelfIsOneZeroIsZero ==
  (probe.fn = "cosineSimilarity" /\ probe.stage = "returned") =>
    /\ ~probe.result.nan
    /\ (probe.a = probe.b /\ probe.a # ZeroVector) =>
         probe.result.num > 0 /\ probe.result.num * probe.result.num = probe.result.den2
    /\ (probe.a = ZeroVector \/ probe.b = ZeroVector) => probe.result.num = 0

\* holds in every run: a non-zero vector with itself gives 1, and two
\* non-zero vectors never give NaN
SelfSimilarityIsOne ==
  (probe.fn = "cosineSimilarity" /\ probe.stage = "returned" /\
   probe.a # ZeroVector /\ probe.b # ZeroVector) =>
    /\ ~probe.result.nan
    /\ probe.a = probe.b =>
         probe.result.num > 0 /\ probe.result.num * probe.result.num = probe.result.den2

\* ------------------------------------------------------------------ C33
\* the embedding call of a turn's retrieval is pending
RetrievalPending == InStage({"rag"}) # {}

\* C33: when the embedding call of a turn's retrieval fails, the step ends
\* the retrieval with no chunks and makes the turn's generation call, writes
\* nothing (no error event) and leaves the loop running; a pending
\* generation call can always return; and when it returns on an open socket
\* the suggestions event is written.
C33_EmbedderFailureStillGenerates ==
  /\ [][ (RetrievalPending /\ failures' # failures) =>
           \E i \in InStage({"rag"}) :
             /\ i \in DOMAIN inflight'
             /\ inflight'[i].stage = "gen"
             /\ inflight'[i].ragContext = <<>>
             /\ calls' = Append(calls, PromptCall("gen", lastFinalTranscript, inflight[i].at))
             /\ sent' = sent
             /\ phase' = phase /\ streamError' = streamError ]_vars
  /\ [](InStage({"gen"}) # {} => ENABLED GenerationStep)
  /\ [][ (InStage({"gen"}) # {} /\ inflight' # inflight /\ wsOpen) =>
           /\ Len(sent') = Len(sent) + 1
           /\ sent'[Len(sent')].type = "suggestions" ]_vars

\* the one call that failed is the embedding call of the turn's retrieval
\* (both summaries, the verdict, the digest and the card came from answers):
\* the generation that followed has returned and its card is the last event
\* written
C33_Witness ==
  /\ wsOpen
  /\ lastReply.svc = "gen"
  /\ lastReply.reply # <<>>
  /\ failures = 1
  /\ sent[Len(sent)].type = "suggestions"
  /\ \E e \in CallsOf("embed") : calls[e].at = Len(events) /\ calls[e].at > 0
  /\ Cardinality(SentOf("summary")) = 2
  /\ \E j \in SentOf("summary") : sent[j].summary = SummaryReply(1)
  /\ \E j \in SentOf("summary") : sent[j].summary = SummaryReply(2)
  /\ \A j \in SentOf("llm_eval") : sent[j].llm.user_context # JStr("LLM error")
  /\ rag.salesVectors # <<>> => ragSummary # ""

\* ------------------------------------------------------------------ C34
\* initialize() is still in precomputeRAGSummary
Precomputing == phase \in {"accepted", "overview", "digest"}

\* the calls of precomputeRAGSummary
OverviewCalls(svc) == {c \in CallsOf(svc) : calls[c].at = 0}

\* C34: the session makes at most one retrieval for the digest, with the
\* query "overview", at most one embedding call and at most one
\* summarization for it, all before its recognition request, and exactly one
\* such retrieval once precomputeRAGSummary is over; from then on ragSummary
\* never changes, it is the summarizer's text or empty, and every stage-1
\* and stage-2 call of the session was given that value; with an empty
\* corpus, a failed embedding call or a failed summarization the digest is
\* empty, nothing is written to the socket and the recognition request is
\* made all the same.
C34_DigestOncePerSession ==
  /\ [](/\ Cardinality(OverviewCalls("retrieve")) <= 1
        /\ Cardinality(OverviewCalls("embed")) <= 1
        /\ Cardinality(CallsOf("digest")) <= 1
        /\ \A c \in OverviewCalls("retrieve") \cup OverviewCalls("embed") \cup CallsOf("digest") :
             /\ calls[c].text = "overview"
             /\ \A t \in CallsOf("transcribe") : c < t
        /\ ~Precomputing =>
             /\ Cardinality(OverviewCalls("retrieve")) = 1
             /\ Cardinality(CallsOf("transcribe")) = 1
             /\ ragSummary \in {"", DigestReply}
             /\ rag.salesVectors = <<>> =>
                  ragSummary = "" /\ OverviewCalls("embed") = {} /\ CallsOf("digest") = {}
        /\ \A c \in CallsOf("eval") \cup CallsOf("gen") : calls[c].digest = ragSummary)
  /\ [][ /\ ~Precomputing => ragSummary' = ragSummary
         /\ (Precomputing /\ failures' # failures) =>
              /\ ragSummary' = ""
              /\ phase' = "starting"
              /\ CallsOf("transcribe")' # {}
              /\ sent' = sent ]_vars

\* the digest was computed at connection time and the generation call of a
\* later turn was given it
C34_Witness ==
  /\ ragSummary = DigestReply
  /\ \E c \in CallsOf("gen") : calls[c].digest = DigestReply /\ calls[c].at = 3

\* ------------------------------------------------------------------ C35
\* the i-th final event handled so far
NthFinal(i) ==
  CHOOSE j \in FinalsHandled : Cardinality({m \in FinalsHandled : m <= j}) = i

\* the history entry of event j
EntryOf(j) == <<Resolve(events[j].awsSpeaker), events[j].transcript>>

\* the entries a prompt or an llm_eval event quotes when event `at` is the
\* latest final event
WindowAt(at) ==
  LET n == Cardinality({m \in FinalsHandled : m <= at})
  IN  [i \in 1..Min(MAX_HISTORY_ITEMS, n) |->
         EntryOf(NthFinal(n - Min(MAX_HISTORY_ITEMS, n) + i))]

\* C35: the history has one entry per final event handled, the i-th being
\* the label and text of the i-th final event; every step leaves the entries
\* it has and adds at most one at the end; every stage-1 and stage-2 call of
\* event `at` is given, and every llm_eval event reports, exactly the last
\* min(MAX_HISTORY_ITEMS, n) entries, the last of which is the entry of the
\* event that started the evaluation.
C35_HistoryAppendOnlyAndWindowed ==
  /\ [](/\ Len(conversationHistory) = Cardinality(FinalsHandled)
        /\ \A i \in DOMAIN conversationHistory : conversationHistory[i] = EntryOf(NthFinal(i))
        /\ \A c \in CallsOf("eval") \cup CallsOf("gen") :
             /\ calls[c].history = WindowAt(calls[c].at)
             /\ calls[c].history[Len(calls[c].history)] = EntryOf(calls[c].at))
  /\ [][ /\ IsPrefix(conversationHistory, conversationHistory')
         /\ Len(conversationHistory') <= Len(conversationHistory) + 1
         /\ (Len(sent') > Len(sent) /\ sent'[Len(sent')].type = "llm_eval") =>
              LET quoted == sent'[Len(sent')].llm.history
              IN  /\ quoted = WindowAt(Len(events))
                  /\ Len(quoted) = Min(MAX_HISTORY_ITEMS, Len(conversationHistory))
                  /\ quoted[Len(quoted)] = EntryOf(Len(events)) ]_vars

\* the eighth final event started an evaluation whose stage-2 call and
\* llm_eval event quote six entries, the first being the third final event
C35_Witness ==
  /\ Len(conversationHistory) = 8
  /\ \E c \in CallsOf("gen") :
       /\ calls[c].at = 8
       /\ Len(calls[c].history) = MAX_HISTORY_ITEMS
       /\ calls[c].history[1] = <<"Speaker 1", "three">>
  /\ sent # <<>>
  /\ sent[Len(sent)].type = "llm_eval"
  /\ Len(sent[Len(sent)].llm.history) = MAX_HISTORY_ITEMS

\* ------------------------------------------------------------------ C36
\* a card with non-empty trigger, title and points
WellFormedCards ==
  { [trigger |-> t, title |-> h, points |-> p] :
      t \in {JStr("quote")}, h \in {JStr("Handle objection")},
      p \in {JArr(<<"Acknowledge", "Offer">>)} }

FallbackReturned ==
  /\ probe.fn = "createFallbackSuggestion"
  /\ probe.stage = "returned"

\* parseSuggestionResponse has returned for the text of card c between the
\* texts b and a
ParsedEmbedded(b, c, a) ==
  /\ probe.fn = "parseSuggestionResponse"
  /\ probe.stage = "returned"
  /\ probe.text = b \o CardText(c.trigger, c.title, c.points) \o a

\* C36: when parseSuggestionResponse has returned for an output that is one
\* well-formed card with non-empty trigger, title and points, alone or
\* between surrounding text, the result is the card with exactly those
\* trigger, title and points; and createFallbackSuggestion(t, r) returns
\* {trigger: t, title: "Suggestion Card", points: [r]}.
C36_WellFormedCardParsed ==
  /\ \A c \in WellFormedCards : \A b \in TextBefore : \A a \in TextAfter :
       ParsedEmbedded(b, c, a) => probe.result = c
  /\ FallbackReturned =>
       probe.result = [trigger |-> JStr(probe.fallbackTrigger),
                       title |-> JStr("Suggestion Card"),
                       points |-> JArr(<<probe.reason>>)]

\* holds in every run: the card is returned when the text before it has no
\* brace, whatever follows it; and createFallbackSuggestion is as stated
CardAfterBraceFreeText ==
  /\ \A c \in WellFormedCards : \A b \in {<<>>, <<TXT>>} : \A a \in TextAfter :
       ParsedEmbedded(b, c, a) => probe.result = c
  /\ FallbackReturned =>
       probe.result = [trigger |-> JStr(probe.fallbackTrigger),
                       title |-> JStr("Suggestion Card"),
                       points |-> JArr(<<probe.reason>>)]

\* ------------------------------------------------------------------ C37
\* frames whose evaluation has been started
Evaluating == InStage({"eval", "rag", "gen"})

RolesBound ==
  /\ inquirerSpeaker # NULL
  /\ responderSpeaker # NULL
  /\ inquirerSpeaker # responderSpeaker

\* C37: while an evaluation is running, both roles are bound to distinct
\* labels and the label of the event that started it is not null.
C37_NoEvaluationWithUnboundRoles ==
  \A i \in Evaluating : RolesBound /\ inflight[i].speakerDisplay # NULL

\* holds in every run: an evaluation started by an event that carries a
\* speaker tag runs with both roles bound to distinct labels, and one
\* started by an untagged event runs with no responder bound
TaggedTriggerHasBoundRoles ==
  \A i \in Evaluating :
    IF inflight[i].speakerDisplay # NULL
    THEN RolesBound /\ inflight[i].speakerDisplay = responderSpeaker
    ELSE responderSpeaker = NULL

\* ------------------------------------------------------------------ C38
\* C38: every frame the client has sent since the connection was accepted is
\* in the audio buffer (from which the generator yields it), whether it
\* arrived during the precomputation of the digest or later.
C38_EveryFrameBuffered ==
  \A n \in 1..framesSent : \E i \in DOMAIN audioBuffer : audioBuffer[i] = n

\* ------------------------------------------------------------------ C39
\* place of an outbound event in the turn of one recognizer event
TypeRank(type) ==
  CASE type = "transcript" -> 0
    [] type = "summary" -> 1
    [] type = "llm_eval" -> 2
    [] type = "suggestions" -> 3
    [] OTHER -> 4

\* the message a step has written, <<>> when it has written none
Written == SubSeq(sent', Len(sent) + 1, Len(sent'))

\* C39: in the outbound sequence every summary, llm_eval and suggestions
\* event follows an event of lower place of the same turn (transcript, then
\* summary, then llm_eval, then suggestions), a suggestions event follows its
\* llm_eval event directly, and an llm_eval event follows the summary or the
\* transcript event; a transcript event is written only when no handler of an
\* earlier event is pending, and every other event is written by the handler
\* of the latest recognizer event.
C39_OutboundOrderedByEvent ==
  /\ [](\A j \in 2..Len(sent) :
          LET r == TypeRank(sent[j].type)
          IN  /\ r \in 1..3 => TypeRank(sent[j - 1].type) < r
              /\ r = 3 => sent[j - 1].type = "llm_eval")
  /\ [][ \A m \in {Written[k] : k \in DOMAIN Written} :
           /\ Len(Written) = 1
           /\ m.type = "transcript" =>
                /\ inflight = <<>>
                /\ Len(events') = Len(events) + 1
                /\ m.transcript = events'[Len(events')].transcript
           /\ TypeRank(m.type) \in 1..3 =>
                /\ events' = events
                /\ Len(inflight) = 1
                /\ inflight[1].at = Len(events)
                /\ events[Len(events)].isFinal ]_vars

\* a turn wrote transcript, summary, llm_eval and suggestions, and the
\* transcript of the next recognizer event follows them
C39_Witness ==
  \E j \in 1..(Len(sent) - 4) :
    /\ sent[j].type = "transcript"
    /\ sent[j + 1].type = "summary"
    /\ sent[j + 2].type = "llm_eval"
    /\ sent[j + 3].type = "suggestions"
    /\ sent[j + 4].type = "transcript"

\* ------------------------------------------------------------------ C40
\* the cards of the suggestions events written so far
CardsSent == {sent[j].suggestions[1] : j \in SentOf("suggestions")}

\* C40: every card of a suggestions event has a title that is a non-empty
\* string and points that are a non-empty array.
C40_CardTitleAndPointsNonEmpty ==
  \A card \in CardsSent :
    /\ card.title.type = "string"
    /\ card.title.items # <<"">>
    /\ card.points.type = "array"
    /\ card.points.items # <<>>

\* holds in every run: the title is a non-empty string, and points is present
\* and is not the empty string
CardTitleNonEmptyPointsPresent ==
  \A card \in CardsSent :
    /\ card.title.type = "string"
    /\ card.title.items # <<"">>
    /\ card.points.type \in {"string", "array"}
    /\ card.points.items # <<"">>

====
